---- MODULE Spec2Model ----
(***************************************************************************)
(* quantfolio: the portfolio ledger (portfolios, transactions), the price  *)
(* store, the external price provider, and the two derived computations    *)
(* compute_positions and compute_portfolio_metrics.                        *)
(*                                                                         *)
(* Decimal values are [nul, m, p]: the number m / 10^p, or None when nul.  *)
(* Values are kept normalised (no trailing zeros), so that equal numbers   *)
(* are equal records.  Dates are day numbers.  Strings that the code       *)
(* strips or uppercases are sequences of one-character strings.            *)
(***************************************************************************)
EXTENDS Integers, Sequences, FiniteSets, TLC

VARIABLES today, portfolios, transactions, prices, provider,
          next_portfolio_id, next_tx_id, resp

vars == <<today, portfolios, transactions, prices, provider,
          next_portfolio_id, next_tx_id, resp>>

-----------------------------------------------------------------------------
(* Bounds of the model *)

\* days are 0..MaxDay
MaxDay == 3
\* portfolio ids are 1..MaxPortfolioIds; an id is never reused
MaxPortfolioIds == 2
\* transaction ids are 1..MaxTxIds; an id is never reused
MaxTxIds == 2

Days == 0..MaxDay
PortfolioIds == 1..MaxPortfolioIds
TxIds == 1..MaxTxIds

-----------------------------------------------------------------------------
(* decimal.Decimal *)

RECURSIVE Pow10(_)
Pow10(n) == IF n = 0 THEN 1 ELSE 10 * Pow10(n - 1)

Abs(x) == IF x < 0 THEN -x ELSE x

Sign(x) == IF x < 0 THEN -1 ELSE IF x > 0 THEN 1 ELSE 0

Max2(a, b) == IF a >= b THEN a ELSE b

NoneDec == [nul |-> TRUE, m |-> 0, p |-> 0]

D(m, p) == [nul |-> FALSE, m |-> m, p |-> p]

RECURSIVE Norm(_)
Norm(d) ==
    IF d.m = 0 THEN D(0, 0)
    ELSE IF d.p > 0 /\ d.m % 10 = 0 THEN Norm(D(d.m \div 10, d.p - 1))
    ELSE d

\* the integer nearest to n / den (den > 0), ties away from zero
ROUND_HALF_UP(n, den) == Sign(n) * ((2 * Abs(n) + den) \div (2 * den))

\* the integer nearest to n / den (den > 0), ties to the even neighbour
ROUND_HALF_EVEN(n, den) ==
    LET a == Abs(n)
        f == a \div den
        r == a % den
        up == IF 2 * r > den THEN 1 ELSE IF 2 * r < den THEN 0 ELSE f % 2
    IN  Sign(n) * (f + up)

\* Decimal.quantize to `places` decimal places; a value that already has no
\* more places keeps its value
quantize(d, places, rounding) ==
    IF d.p <= places THEN Norm(d)
    ELSE LET den == Pow10(d.p - places)
         IN  Norm(D(IF rounding = "ROUND_HALF_UP"
                    THEN ROUND_HALF_UP(d.m, den)
                    ELSE ROUND_HALF_EVEN(d.m, den), places))

\* m of d at p places (p >= d.p)
Scaled(d, p) == d.m * Pow10(p - d.p)

DecAdd(a, b) ==
    LET p == Max2(a.p, b.p) IN Norm(D(Scaled(a, p) + Scaled(b, p), p))

DecNeg(a) == D(-a.m, a.p)

DecSub(a, b) == DecAdd(a, DecNeg(b))

DecMul(a, b) == Norm(D(a.m * b.m, a.p + b.p))

DecLt(a, b) == LET p == Max2(a.p, b.p) IN Scaled(a, p) < Scaled(b, p)

DecLe(a, b) == LET p == Max2(a.p, b.p) IN Scaled(a, p) <= Scaled(b, p)

DecEq(a, b) == LET p == Max2(a.p, b.p) IN Scaled(a, p) = Scaled(b, p)

Zero == D(0, 0)

RECURSIVE DecSum(_, _)
\* the sum of f[x] over the finite set S
DecSum(f, S) ==
    IF S = {} THEN Zero
    ELSE LET x == CHOOSE y \in S : TRUE
         IN  DecAdd(f[x], DecSum(f, S \ {x}))

-----------------------------------------------------------------------------
(* str.strip, str.upper *)

upper_char(c) ==
    CASE c = "a" -> "A"
      [] c = "b" -> "B"
      [] OTHER -> c

upper(s) == [i \in 1..Len(s) |-> upper_char(s[i])]

RECURSIVE lstrip(_)
lstrip(s) == IF s # <<>> /\ Head(s) = " " THEN lstrip(Tail(s)) ELSE s

RECURSIVE rstrip(_)
rstrip(s) ==
    IF s # <<>> /\ s[Len(s)] = " " THEN rstrip(SubSeq(s, 1, Len(s) - 1)) ELSE s

strip(s) == rstrip(lstrip(s))

\* ord() of the characters in use
char_code(c) ==
    CASE c = " " -> 32
      [] c = "A" -> 65
      [] c = "B" -> 66
      [] c = "a" -> 97
      [] c = "b" -> 98
      [] OTHER -> 0

RECURSIVE str_lt(_, _)
\* s < t for str
str_lt(s, t) ==
    IF t = <<>> THEN FALSE
    ELSE IF s = <<>> THEN TRUE
    ELSE IF char_code(Head(s)) # char_code(Head(t))
         THEN char_code(Head(s)) < char_code(Head(t))
         ELSE str_lt(Tail(s), Tail(t))

RECURSIVE sorted(_)
\* sorted(S) of a finite set of str
sorted(S) ==
    IF S = {} THEN <<>>
    ELSE LET least == CHOOSE x \in S : \A y \in S \ {x} : str_lt(x, y)
         IN  <<least>> \o sorted(S \ {least})

\* the ticker symbols of the model
Tickers == {<<"A">>, <<"B">>}

-----------------------------------------------------------------------------
(* db/models.py *)

TransactionType == {"BUY", "SELL", "DIVIDEND", "FEE"}

\* String(16) of Transaction.ticker
TickerMaxLen == 16

\* the CHECK constraints and the foreign key of the transactions table
TransactionConstraints(tx) ==
    /\ \/ /\ tx.type \in {"BUY", "SELL"}
          /\ ~tx.quantity.nul /\ tx.quantity.m > 0
          /\ ~tx.price.nul /\ tx.price.m >= 0
       \/ tx.type \notin {"BUY", "SELL"}
    /\ \/ /\ tx.type \in {"DIVIDEND", "FEE"}
          /\ ~tx.amount.nul /\ tx.amount.m >= 0
       \/ tx.type \notin {"DIVIDEND", "FEE"}
    /\ tx.date <= today
    /\ tx.ticker = upper(tx.ticker)
    /\ Len(tx.ticker) <= TickerMaxLen
    /\ \E p \in portfolios : p.id = tx.portfolio_id

\* relationship(cascade="all, delete-orphan") and ondelete="CASCADE": the
\* transactions that survive the deletion of portfolio pid
CascadeDeleteKeepAll(pid) == transactions

CascadeDelete(pid) == {tx \in transactions : tx.portfolio_id # pid}

-----------------------------------------------------------------------------
(* db/crud_transactions.py *)

_DECIMAL_QUANT == 8

_to_decimal(value) ==
    IF value.nul THEN NoneDec
    ELSE quantize(value, _DECIMAL_QUANT, "ROUND_HALF_EVEN")

\* [err, value]: err is "" or the exception raised
_normalize_ticker_unchecked(ticker) ==
    [err |-> "", value |-> upper(strip(ticker))]

_normalize_ticker(ticker) ==
    IF ticker = <<>> \/ strip(ticker) = <<>>
    THEN [err |-> "InvalidTransactionError", value |-> <<>>]
    ELSE [err |-> "", value |-> upper(strip(ticker))]

type_upper(value) ==
    CASE value = "buy" -> "BUY"
      [] value = "sell" -> "SELL"
      [] value = "dividend" -> "DIVIDEND"
      [] value = "fee" -> "FEE"
      [] value = "swap" -> "SWAP"
      [] OTHER -> value

_resolve_type(value) ==
    IF value \in TransactionType THEN [err |-> "", value |-> value]
    ELSE IF type_upper(value) \in TransactionType
         THEN [err |-> "", value |-> type_upper(value)]
         ELSE [err |-> "InvalidTransactionError", value |-> value]

\* "" when the payload passes, else the exception raised
_validate_payload(tx_type, quantity, price, amount, tx_date) ==
    IF tx_date > today THEN "InvalidTransactionError"
    ELSE IF tx_type \in {"BUY", "SELL"}
         THEN IF quantity.nul \/ quantity.m <= 0 THEN "InvalidTransactionError"
              ELSE IF price.nul \/ price.m < 0 THEN "InvalidTransactionError"
              ELSE ""
         ELSE IF amount.nul \/ amount.m < 0 THEN "InvalidTransactionError"
              ELSE ""

\* create_transaction up to the flush: [err, tx], tx the row to insert
create_transaction_row(portfolio_id, ticker, tx_type, tx_date, quantity, price, amount) ==
    LET normalized_type == _resolve_type(tx_type)
        normalized_ticker == _normalize_ticker(ticker)
        quantity_dec == _to_decimal(quantity)
        price_dec == _to_decimal(price)
        amount_dec == _to_decimal(amount)
        tx == [id |-> next_tx_id,
               portfolio_id |-> portfolio_id,
               ticker |-> normalized_ticker.value,
               date |-> tx_date,
               type |-> normalized_type.value,
               quantity |-> quantity_dec,
               price |-> price_dec,
               amount |-> amount_dec]
        invalid == _validate_payload(normalized_type.value, quantity_dec,
                                     price_dec, amount_dec, tx_date)
    IN  IF normalized_type.err # "" THEN [err |-> normalized_type.err, tx |-> tx]
        ELSE IF normalized_ticker.err # "" THEN [err |-> normalized_ticker.err, tx |-> tx]
        ELSE IF invalid # "" THEN [err |-> invalid, tx |-> tx]
        ELSE IF ~TransactionConstraints(tx) THEN [err |-> "InvalidTransactionError", tx |-> tx]
        ELSE [err |-> "", tx |-> tx]

create_transaction(portfolio_id, ticker, tx_type, tx_date, quantity, price, amount) ==
    LET r == create_transaction_row(portfolio_id, ticker, tx_type, tx_date,
                                    quantity, price, amount)
    IN  /\ IF r.err = ""
           THEN /\ next_tx_id <= MaxTxIds
                /\ transactions' = transactions \cup {r.tx}
                /\ next_tx_id' = next_tx_id + 1
           ELSE UNCHANGED <<transactions, next_tx_id>>
        /\ resp' = [op |-> "create_transaction", err |-> r.err]
        /\ UNCHANGED <<today, portfolios, prices, provider, next_portfolio_id>>

get_transaction_of_any_portfolio(portfolio_id, transaction_id) ==
    {tx \in transactions : tx.id = transaction_id}

\* get_transaction: the rows of the portfolio with that id
get_transaction(portfolio_id, transaction_id) ==
    {tx \in transactions : tx.portfolio_id = portfolio_id /\ tx.id = transaction_id}

delete_transaction(portfolio_id, transaction_id) ==
    LET found == get_transaction(portfolio_id, transaction_id)
    IN  /\ transactions' = transactions \ found
        /\ resp' = [op |-> "delete_transaction",
                    err |-> IF found = {} THEN "TransactionNotFoundError" ELSE ""]
        /\ UNCHANGED <<today, portfolios, prices, provider, next_portfolio_id, next_tx_id>>

-----------------------------------------------------------------------------
(* db/crud_portfolios.py *)

\* models.py: Portfolio.name is String(120)
PortfolioNameMaxLen == 120

\* get_portfolio: the rows with that id
get_portfolio(portfolio_id) == {p \in portfolios : p.id = portfolio_id}

IntegrityError_never(name) == FALSE

\* the unique index on portfolios.name refuses the flush of a second row
IntegrityError(name) == \E p \in portfolios : p.name = name

create_portfolio(name) ==
    LET normalized == strip(name)
        err == IF normalized = <<>> THEN "ValueError"
               ELSE IF IntegrityError(normalized)
                    THEN "PortfolioAlreadyExistsError"
                    ELSE ""
    IN  /\ IF err = ""
           THEN /\ next_portfolio_id <= MaxPortfolioIds
                /\ portfolios' = portfolios \cup {[id |-> next_portfolio_id, name |-> normalized]}
                /\ next_portfolio_id' = next_portfolio_id + 1
           ELSE UNCHANGED <<portfolios, next_portfolio_id>>
        /\ resp' = [op |-> "create_portfolio", err |-> err]
        /\ UNCHANGED <<today, transactions, prices, provider, next_tx_id>>

delete_portfolio(portfolio_id) ==
    LET found == get_portfolio(portfolio_id)
    IN  /\ IF found = {}
           THEN UNCHANGED <<portfolios, transactions>>
           ELSE /\ portfolios' = portfolios \ found
                /\ transactions' = CascadeDelete(portfolio_id)
        /\ resp' = [op |-> "delete_portfolio",
                    err |-> IF found = {} THEN "PortfolioNotFoundError" ELSE ""]
        /\ UNCHANGED <<today, prices, provider, next_portfolio_id, next_tx_id>>

\* schemas.py: PortfolioCreate, the name after validation or the error
PortfolioCreate(name) ==
    IF Len(name) < 1 \/ Len(name) > PortfolioNameMaxLen \/ strip(name) = <<>>
    THEN [err |-> "RequestValidationError", name |-> <<>>]
    ELSE [err |-> "", name |-> strip(name)]

(* main.py: POST /portfolios *)
post_portfolios(name) ==
    LET payload == PortfolioCreate(name)
        normalized == strip(payload.name)
        status == IF payload.err # "" THEN 422
                  ELSE IF normalized = <<>> THEN 500
                  ELSE IF IntegrityError(normalized) THEN 409
                  ELSE 201
    IN  /\ IF status = 201
           THEN /\ next_portfolio_id <= MaxPortfolioIds
                /\ portfolios' = portfolios \cup {[id |-> next_portfolio_id, name |-> normalized]}
                /\ next_portfolio_id' = next_portfolio_id + 1
           ELSE UNCHANGED <<portfolios, next_portfolio_id>>
        /\ resp' = [op |-> "post_portfolios",
                    err |-> CASE status = 422 -> "RequestValidationError"
                              [] status = 500 -> "ValueError"
                              [] status = 409 -> "HTTPException"
                              [] status = 201 -> "",
                    status |-> status]
        /\ UNCHANGED <<today, transactions, prices, provider, next_tx_id>>

\* no response is being delivered
NoResponse == [op |-> "", err |-> ""]

-----------------------------------------------------------------------------
(* db/crud_prices.py: the price store, rows [ticker, date, close] *)

PRICE_PLACES == 6

\* Decimal(str(round(float(value), 6)))
price_to_decimal(value) ==
    IF value.nul THEN NoneDec
    ELSE quantize(value, PRICE_PLACES, "ROUND_HALF_EVEN")

\* dict.get: the value under a key, None without it
row_get(row, key) == IF key \in DOMAIN row THEN row[key] ELSE NoneDec

\* int(row["volume"]): the integer part, towards zero
volume_to_int(value) ==
    IF value.nul THEN NoneDec
    ELSE D(Sign(value.m) * (Abs(value.m) \div Pow10(value.p)), 0)

\* two rows of one statement fall on one (ticker, date): PostgreSQL refuses
\* to update a row a second time in one command
CardinalityViolation(rows) == \E r1, r2 \in rows : r1 # r2 /\ r1.date = r2.date

on_conflict_do_nothing(payload) ==
    prices \cup {new \in payload : ~\E old \in prices :
                     new.ticker = old.ticker /\ new.date = old.date}

\* ON CONFLICT (ticker, date) DO UPDATE SET open, high, low, close, volume
on_conflict_do_update(payload) ==
    LET replaced == {old \in prices : \E new \in payload :
                        new.ticker = old.ticker /\ new.date = old.date}
    IN  (prices \ replaced) \cup payload

\* rows is the set of the dicts handed in, each with a date and any of open,
\* high, low, close, volume
upsert_prices(ticker, rows) ==
    LET t == upper(ticker)
        payload == {[ticker |-> t, date |-> r.date,
                     open |-> price_to_decimal(row_get(r, "open")),
                     high |-> price_to_decimal(row_get(r, "high")),
                     low |-> price_to_decimal(row_get(r, "low")),
                     close |-> price_to_decimal(row_get(r, "close")),
                     volume |-> volume_to_int(row_get(r, "volume"))] : r \in rows}
    IN  /\ IF CardinalityViolation(rows)
           THEN /\ prices' = prices
                /\ resp' = [op |-> "upsert_prices", err |-> "ProgrammingError", count |-> 0]
           ELSE /\ prices' = on_conflict_do_update(payload)
                /\ resp' = [op |-> "upsert_prices", err |-> "", count |-> Cardinality(payload)]
        /\ UNCHANGED <<today, portfolios, transactions, provider,
                       next_portfolio_id, next_tx_id>>

\* the latest bar of each ticker: SELECT DISTINCT ON (ticker) ... ORDER BY
\* ticker, date DESC
get_latest_prices_for_earliest(tickers) ==
    {row \in prices :
        /\ row.ticker \in {upper(t) : t \in {x \in tickers : x # <<>>}}
        /\ \A other \in prices : other.ticker = row.ticker => other.date >= row.date}

get_latest_prices_for(tickers) ==
    {row \in prices :
        /\ row.ticker \in {upper(t) : t \in {x \in tickers : x # <<>>}}
        /\ \A other \in prices : other.ticker = row.ticker => other.date <= row.date}

-----------------------------------------------------------------------------
(* services/market_data.py: the external provider *)

\* what the provider quotes for a ticker on a day
ProviderClose(ticker, day) == D(8 + 2 * (day % 2), 0)

\* round(float(value), 6)
_safe_float(value) == quantize(value, PRICE_PLACES, "ROUND_HALF_EVEN")

\* [err, status, close]: HTTPException 502 when the download fails, 404 when
\* there is no data
get_last_close(ticker) ==
    CASE provider[ticker] = "down" -> [err |-> "HTTPException", status |-> 502, close |-> NoneDec]
      [] provider[ticker] = "nodata" -> [err |-> "HTTPException", status |-> 404, close |-> NoneDec]
      [] OTHER -> [err |-> "", status |-> 200, close |-> _safe_float(ProviderClose(ticker, today))]

SetProvider(ticker, mode) ==
    /\ provider[ticker] # mode
    /\ provider' = [provider EXCEPT ![ticker] = mode]
    /\ resp' = NoResponse
    /\ UNCHANGED <<today, portfolios, transactions, prices,
                   next_portfolio_id, next_tx_id>>

-----------------------------------------------------------------------------
(* db/crud_transactions.py: aggregate_positions *)

qty_case(tx) ==
    CASE tx.type = "BUY" -> tx.quantity
      [] tx.type = "SELL" -> DecNeg(tx.quantity)
      [] OTHER -> Zero

cost_case_unsigned(tx) ==
    CASE tx.type = "BUY" -> DecMul(tx.quantity, tx.price)
      [] tx.type = "SELL" -> DecMul(tx.quantity, tx.price)
      [] OTHER -> Zero

cost_case(tx) ==
    CASE tx.type = "BUY" -> DecMul(tx.quantity, tx.price)
      [] tx.type = "SELL" -> DecMul(DecNeg(tx.quantity), tx.price)
      [] OTHER -> Zero

\* GROUP BY ticker ORDER BY ticker: a sequence of [ticker, quantity, cost]
aggregate_positions(portfolio_id) ==
    LET rows == {tx \in transactions : tx.portfolio_id = portfolio_id}
        order == sorted({tx.ticker : tx \in rows})
        group(t) == {tx \in rows : tx.ticker = t}
    IN  [i \in 1..Len(order) |->
            [ticker |-> order[i],
             quantity |-> DecSum([tx \in group(order[i]) |-> qty_case(tx)], group(order[i])),
             cost |-> DecSum([tx \in group(order[i]) |-> cost_case(tx)], group(order[i]))]]

-----------------------------------------------------------------------------
(* services/portfolios.py: compute_positions *)

_PRICE_QUANT == 4

_VALUE_QUANT == 2

_QTY_QUANT == 8

\* _quantize: None stays None
_quantize(value, quantum) ==
    IF value.nul THEN NoneDec ELSE quantize(value, quantum, "ROUND_HALF_UP")

-----------------------------------------------------------------------------
(* Decimal arithmetic of compute_positions under the default context: every
   quotient, difference and product is rounded to DECIMAL_PREC significant
   digits, ROUND_HALF_EVEN.  A wide value is [neg, dig, exp]: the digits of
   the coefficient, most significant first, and the exponent of ten. *)

DECIMAL_PREC == 28

RECURSIVE Digits(_)
Digits(n) == IF n = 0 THEN <<>> ELSE Digits(n \div 10) \o <<n % 10>>

RECURSIVE ToInt(_)
ToInt(s) == IF s = <<>> THEN 0 ELSE 10 * ToInt(SubSeq(s, 1, Len(s) - 1)) + s[Len(s)]

RECURSIVE StripLead(_)
StripLead(s) == IF s # <<>> /\ s[1] = 0 THEN StripLead(Tail(s)) ELSE s

Zeros(k) == [i \in 1..k |-> 0]

PadLeft(s, n) == Zeros(n - Len(s)) \o s

RECURSIVE AddAt(_, _, _, _)
AddAt(a, b, i, c) ==
    IF i = 0 THEN (IF c = 0 THEN <<>> ELSE <<c>>)
    ELSE LET t == a[i] + b[i] + c
         IN  AddAt(a, b, i - 1, t \div 10) \o <<t % 10>>

AddMag(a, b) ==
    LET n == Max2(Len(a), Len(b))
    IN  AddAt(PadLeft(a, n), PadLeft(b, n), n, 0)

RECURSIVE SubAt(_, _, _, _)
SubAt(a, b, i, c) ==
    IF i = 0 THEN <<>>
    ELSE LET t == a[i] - b[i] - c
         IN  SubAt(a, b, i - 1, IF t < 0 THEN 1 ELSE 0) \o <<IF t < 0 THEN t + 10 ELSE t>>

\* a - b for a >= b
SubMag(a, b) ==
    LET n == Max2(Len(a), Len(b))
    IN  StripLead(SubAt(PadLeft(a, n), PadLeft(b, n), n, 0))

RECURSIVE LexLt(_, _)
LexLt(a, b) ==
    IF a = <<>> THEN FALSE
    ELSE IF a[1] # b[1] THEN a[1] < b[1]
    ELSE LexLt(Tail(a), Tail(b))

MagLt(a, b) ==
    LET x == StripLead(a)
        y == StripLead(b)
    IN  IF Len(x) # Len(y) THEN Len(x) < Len(y) ELSE LexLt(x, y)

RECURSIVE MulAt(_, _, _, _)
MulAt(a, k, i, c) ==
    IF i = 0 THEN Digits(c)
    ELSE LET t == a[i] * k + c
         IN  MulAt(a, k, i - 1, t \div 10) \o <<t % 10>>

Wide(d) == [neg |-> d.m < 0, dig |-> Digits(Abs(d.m)), exp |-> -d.p]

\* the context's rounding of an exact result
context_round(x) ==
    LET d == StripLead(x.dig)
        n == Len(d)
        kept == SubSeq(d, 1, DECIMAL_PREC)
        rest == SubSeq(d, DECIMAL_PREC + 1, n)
        half == <<5>> \o Zeros(n - DECIMAL_PREC - 1)
        up == MagLt(half, rest) \/ (rest = half /\ kept[DECIMAL_PREC] % 2 = 1)
        raised == IF up THEN AddMag(kept, <<1>>) ELSE kept
    IN  IF n <= DECIMAL_PREC THEN [neg |-> x.neg /\ d # <<>>, dig |-> d, exp |-> x.exp]
        ELSE [neg |-> x.neg,
              dig |-> SubSeq(raised, 1, DECIMAL_PREC),
              exp |-> x.exp + (n - DECIMAL_PREC) + (Len(raised) - DECIMAL_PREC)]

\* how many times a is multiplied by ten to reach b
RECURSIVE ScaleUp(_, _)
ScaleUp(a, b) == IF a >= b THEN 0 ELSE 1 + ScaleUp(a * 10, b)

\* how many times b is multiplied by ten while it stays within a
RECURSIVE ScaleDown(_, _)
ScaleDown(a, b) == IF a < 10 * b THEN 0 ELSE 1 + ScaleDown(a, b * 10)

\* k digits of r / den, and what is left of r
RECURSIVE LongDivision(_, _, _)
LongDivision(r, den, k) ==
    IF k = 0 THEN [dig |-> <<>>, rem |-> r]
    ELSE LET next == LongDivision((r % den) * 10, den, k - 1)
         IN  [dig |-> <<r \div den>> \o next.dig, rem |-> next.rem]

\* Decimal.__truediv__ of two narrow values, d # 0
Decimal_div(n, d) ==
    LET up == ScaleUp(Abs(n.m), Abs(d.m))
        num == Abs(n.m) * Pow10(up)
        down == ScaleDown(num, Abs(d.m))
        den == Abs(d.m) * Pow10(down)
        q == LongDivision(num, den, DECIMAL_PREC)
        round_up == 2 * q.rem > 10 * den
                    \/ (2 * q.rem = 10 * den /\ q.dig[DECIMAL_PREC] % 2 = 1)
        raised == IF round_up THEN AddMag(q.dig, <<1>>) ELSE q.dig
    IN  IF n.m = 0 THEN [neg |-> FALSE, dig |-> <<>>, exp |-> 0]
        ELSE [neg |-> (n.m < 0) # (d.m < 0),
              dig |-> SubSeq(raised, 1, DECIMAL_PREC),
              exp |-> (down - up - (DECIMAL_PREC - 1)) + (d.p - n.p)
                      + (Len(raised) - DECIMAL_PREC)]

\* Decimal.__sub__
Decimal_sub(x, y) ==
    LET e == IF x.exp < y.exp THEN x.exp ELSE y.exp
        a == x.dig \o Zeros(x.exp - e)
        b == y.dig \o Zeros(y.exp - e)
    IN  context_round(
            IF x.neg # y.neg THEN [neg |-> x.neg, dig |-> AddMag(a, b), exp |-> e]
            ELSE IF MagLt(a, b) THEN [neg |-> ~x.neg, dig |-> SubMag(b, a), exp |-> e]
            ELSE [neg |-> x.neg, dig |-> SubMag(a, b), exp |-> e])

\* Decimal.__mul__ by a narrow value
Decimal_mul(x, d) ==
    context_round([neg |-> x.neg # (d.m < 0),
                   dig |-> MulAt(x.dig, Abs(d.m), Len(x.dig), 0),
                   exp |-> x.exp - d.p])

\* Decimal.quantize(quantum, rounding=ROUND_HALF_UP) of a wide value
wide_quantize(x, places) ==
    LET d == StripLead(x.dig)
        shift == -places - x.exp
        sign == IF x.neg THEN -1 ELSE 1
        padded == PadLeft(d, Max2(Len(d), shift))
        kept == SubSeq(padded, 1, Len(padded) - shift)
        first == padded[Len(padded) - shift + 1]
    IN  IF shift <= 0 THEN Norm(D(sign * ToInt(d \o Zeros(-shift)), places))
        ELSE Norm(D(sign * (ToInt(kept) + IF first >= 5 THEN 1 ELSE 0), places))

-----------------------------------------------------------------------------
(* services/portfolios.py: compute_positions, continued *)

\* the rows compute_positions keeps
filtered_long_only(aggregates) ==
    LET keep(row) == row.quantity.m > 0 IN SelectSeq(aggregates, keep)

filtered(aggregates) ==
    LET keep(row) == ~DecEq(row.quantity, Zero) IN SelectSeq(aggregates, keep)

\* one PositionOut
PositionOut(row, db_prices, fallback_prices) ==
    LET ticker == row.ticker
        quantity == quantize(row.quantity, _QTY_QUANT, "ROUND_HALF_UP")
        cost == row.cost
        avg_cost == Decimal_div(cost, quantity)
        price_record == {r \in db_prices : r.ticker = ticker}
        market_price ==
            IF \E r \in price_record : ~r.close.nul
            THEN (CHOOSE r \in price_record : TRUE).close
            ELSE IF ticker \in DOMAIN fallback_prices THEN fallback_prices[ticker]
            ELSE NoneDec
        market_value ==
            IF market_price.nul THEN Wide(Zero)
            ELSE Decimal_mul(Wide(market_price), quantity)
        unrealized ==
            IF market_price.nul THEN Wide(Zero)
            ELSE Decimal_mul(Decimal_sub(Wide(market_price), avg_cost), quantity)
    IN  [ticker |-> ticker,
         quantity |-> _quantize(quantity, _QTY_QUANT),
         avg_cost |-> wide_quantize(avg_cost, _PRICE_QUANT),
         market_price |-> _quantize(market_price, _PRICE_QUANT),
         market_value |-> wide_quantize(market_value, _VALUE_QUANT),
         unrealized_pnl |-> wide_quantize(unrealized, _VALUE_QUANT)]

fetch_fallback_prices_until_failure(missing) ==
    LET failed == {i \in 1..Len(missing) : get_last_close(missing[i]).err # ""}
        fetched == {i \in 1..Len(missing) : \A j \in failed : i < j}
    IN  [t \in {missing[i] : i \in fetched} |-> get_last_close(t).close]

\* the provider's last close of each missing ticker; a ticker whose lookup
\* raises HTTPException is passed over
fetch_fallback_prices(missing) ==
    LET answered == {i \in 1..Len(missing) : get_last_close(missing[i]).err = ""}
    IN  [t \in {missing[i] : i \in answered} |-> get_last_close(t).close]

\* [positions, io]: the list returned and the reads and provider calls made
compute_positions(portfolio_id) ==
    LET aggregates == aggregate_positions(portfolio_id)
        rows == filtered(aggregates)
        tickers == [i \in 1..Len(rows) |-> rows[i].ticker]
        db_prices == get_latest_prices_for({tickers[i] : i \in 1..Len(tickers)})
        is_missing(t) == ~\E r \in db_prices : r.ticker = t /\ ~r.close.nul
        missing == SelectSeq(tickers, is_missing)
        fallback_prices == fetch_fallback_prices(missing)
    IN  IF Len(aggregates) = 0
        THEN [positions |-> <<>>, io |-> <<[fn |-> "aggregate_positions", arg |-> <<>>]>>]
        ELSE IF Len(rows) = 0
        THEN [positions |-> <<>>, io |-> <<[fn |-> "aggregate_positions", arg |-> <<>>]>>]
        ELSE [positions |-> [i \in 1..Len(rows) |-> PositionOut(rows[i], db_prices, fallback_prices)],
              io |-> <<[fn |-> "aggregate_positions", arg |-> <<>>],
                       [fn |-> "get_latest_prices_for", arg |-> <<>>]>>
                     \o [i \in 1..Len(missing) |-> [fn |-> "get_last_close", arg |-> missing[i]]]]

(* main.py: GET /portfolios/{portfolio_id}/positions *)
portfolio_positions(portfolio_id) ==
    LET found == get_portfolio(portfolio_id)
        r == compute_positions(portfolio_id)
    IN  /\ resp' = IF found = {}
                   THEN [op |-> "portfolio_positions", err |-> "HTTPException",
                         status |-> 404, portfolio_id |-> portfolio_id,
                         positions |-> <<>>, io |-> <<>>]
                   ELSE [op |-> "portfolio_positions", err |-> "",
                         status |-> 200, portfolio_id |-> portfolio_id,
                         positions |-> r.positions, io |-> r.io]
        /\ UNCHANGED <<today, portfolios, transactions, prices, provider,
                       next_portfolio_id, next_tx_id>>

-----------------------------------------------------------------------------
(* binary64 values of the statistics path, kept as the rationals they
   stand for; NaN is the missing value of a frame *)

RECURSIVE GCD(_, _)
GCD(a, b) == IF b = 0 THEN a ELSE GCD(b, a % b)

NaN == [nan |-> TRUE, n |-> 0, d |-> 1]

Q(n, d) ==
    LET g == GCD(Abs(n), Abs(d))
        s == IF d < 0 THEN -1 ELSE 1
    IN  [nan |-> FALSE, n |-> (s * n) \div g, d |-> (s * d) \div g]

LCM(a, b) == (a \div GCD(a, b)) * b

QAdd(a, b) ==
    LET l == LCM(a.d, b.d) IN Q(a.n * (l \div a.d) + b.n * (l \div b.d), l)

QNeg(a) == Q(-a.n, a.d)

QSub(a, b) == QAdd(a, QNeg(b))

QMul(a, b) ==
    LET x == Q(a.n, b.d)
        y == Q(b.n, a.d)
    IN  Q(x.n * y.n, x.d * y.d)

QDiv(a, b) == QMul(a, Q(b.d, b.n))

QLt(a, b) ==
    LET l == LCM(a.d, b.d) IN a.n * (l \div a.d) < b.n * (l \div b.d)

QLe(a, b) == ~QLt(b, a)

QZero == Q(0, 1)

QOne == Q(1, 1)

QAbs(a) == Q(Abs(a.n), a.d)

\* float(Decimal)
float(dec) == Q(dec.m, Pow10(dec.p))

RECURSIVE QSum(_)
QSum(seq) == IF seq = <<>> THEN QZero ELSE QAdd(Head(seq), QSum(Tail(seq)))

RECURSIVE QProd(_)
QProd(seq) == IF seq = <<>> THEN QOne ELSE QMul(Head(seq), QProd(Tail(seq)))

\* the elements of a sequence
Range(seq) == {seq[i] : i \in 1..Len(seq)}

\* np.array / pd.Series: the values of a column, computed once
array(col) == col \o <<>>

\* pd.DataFrame: the columns of a frame, computed once
DataFrame(columns) == columns @@ <<>>

-----------------------------------------------------------------------------
(* db/crud_transactions.py: get_all_transactions *)

\* ORDER BY date ASC, created_at ASC: ids are handed out in creation order
RECURSIVE order_by_date(_)
order_by_date(rows) ==
    IF rows = {} THEN <<>>
    ELSE LET first == CHOOSE tx \in rows : \A other \in rows :
                          tx.date < other.date \/ (tx.date = other.date /\ tx.id <= other.id)
         IN  <<first>> \o order_by_date(rows \ {first})

get_all_transactions_once(portfolio_id, up_to) ==
    IF resp.op = "compute_portfolio_metrics" THEN <<>>
    ELSE order_by_date({tx \in transactions : tx.portfolio_id = portfolio_id /\ tx.date <= up_to})

get_all_transactions(portfolio_id, up_to) ==
    order_by_date({tx \in transactions : tx.portfolio_id = portfolio_id /\ tx.date <= up_to})

-----------------------------------------------------------------------------
(* db/crud_prices.py: load_price_history_for_tickers *)

RECURSIVE order_by_bar_date(_)
order_by_bar_date(rows) ==
    IF rows = {} THEN <<>>
    ELSE LET first == CHOOSE r \in rows : \A other \in rows : r.date <= other.date
         IN  <<first>> \o order_by_bar_date(rows \ {first})

\* a dict: ticker -> its stored bars of [start, end], by date
load_price_history_for_tickers(tickers, start, end) ==
    LET normalized == {upper(t) : t \in {x \in Range(tickers) : x # <<>>}}
    IN  [t \in normalized |->
            order_by_bar_date({r \in prices : r.ticker = t /\ r.date >= start /\ r.date <= end})]

-----------------------------------------------------------------------------
(* services/market_data.py: get_history *)

\* the daily bars the provider has for [start, end): its end is exclusive
get_history(ticker, start, end) ==
    LET days == start..(end - 1)
        records == [i \in 1..Cardinality(days) |->
                       [date |-> start + i - 1,
                        close |-> _safe_float(ProviderClose(ticker, start + i - 1))]]
    IN  IF start > end
        THEN [err |-> "HTTPException", status |-> 422, data |-> <<>>]
        ELSE IF provider[ticker] = "down"
        THEN [err |-> "HTTPException", status |-> 502, data |-> <<>>]
        ELSE IF provider[ticker] = "nodata" \/ days = {}
        THEN [err |-> "HTTPException", status |-> 404, data |-> <<>>]
        ELSE [err |-> "", status |-> 200, data |-> records]

-----------------------------------------------------------------------------
(* services/portfolios.py: the frames of compute_portfolio_metrics; a frame
   is a function ticker -> column, a column a sequence over date_index *)

\* pd.date_range(start, end, freq="D")
date_range(start, end) ==
    array([i \in 1..(IF end >= start THEN end - start + 1 ELSE 0) |-> start + i - 1])

\* DataFrame.cumsum of one column
cumsum(col) == array([i \in 1..Len(col) |-> QSum(SubSeq(col, 1, i))])

\* the signed quantity changes of the BUY and SELL rows
qty_records(txs) ==
    LET is_trade(tx) == tx.type \in {"BUY", "SELL"}
        trades == SelectSeq(txs, is_trade)
        nonzero(r) == r.qty_delta # QZero
        delta(tx) == IF tx.type = "SELL"
                     THEN QMul(float(tx.quantity), Q(-1, 1))
                     ELSE float(tx.quantity)
        records == array([i \in 1..Len(trades) |->
                             [date |-> trades[i].date, ticker |-> trades[i].ticker,
                              qty_delta |-> delta(trades[i])]])
    IN  SelectSeq(records, nonzero)

\* pivot_table(index="date", columns="ticker", aggfunc="sum"), reindexed to
\* date_index and tickers with 0.0
qty_pivot(txs, tickers, date_index) ==
    LET records == qty_records(txs)
    IN  DataFrame([t \in Range(tickers) |->
            array([i \in 1..Len(date_index) |->
                QSum(array([k \in 1..Len(records) |->
                         IF records[k].ticker = t /\ records[k].date = date_index[i]
                         THEN records[k].qty_delta ELSE QZero]))])])

_timeseries_positions_deltas(txs, tickers, date_index) ==
    qty_pivot(txs, tickers, date_index)

_timeseries_positions(txs, tickers, date_index) ==
    LET pivot == qty_pivot(txs, tickers, date_index)
    IN  DataFrame([t \in Range(tickers) |-> cumsum(pivot[t])])

missing_all(tickers, db_prices) == tickers

\* the tickers for which the store returned no rows, in the order of tickers
missing(tickers, db_prices) ==
    LET items(t) == IF t \in DOMAIN db_prices THEN db_prices[t] ELSE <<>>
        no_items(t) == items(t) = <<>>
    IN  SelectSeq(tickers, no_items)

_ensure_price_history_lenient(tickers, start, end, db_prices) ==
    LET items(t) == IF t \in DOMAIN db_prices THEN db_prices[t] ELSE <<>>
        no_items(t) == items(t) = <<>>
        missing_ == SelectSeq(tickers, no_items)
        stored == {[date |-> r.date, ticker |-> r.ticker, close |-> float(r.close)] :
                      r \in {x \in UNION {Range(items(t)) : t \in Range(tickers)} : ~x.close.nul}}
        fetched == UNION {{[date |-> item.date, ticker |-> missing_[i], close |-> float(item.close)] :
                              item \in Range(get_history(missing_[i], start, end).data)} :
                          i \in 1..Len(missing_)}
        io == [i \in 1..Len(missing_) |-> [fn |-> "get_history", arg |-> missing_[i]]]
    IN  IF stored \cup fetched = {}
        THEN [err |-> "HTTPException", detail |-> "No price data available", rows |-> {}, io |-> io]
        ELSE [err |-> "", detail |-> "", rows |-> stored \cup fetched, io |-> io]

\* [err, detail, rows, io]: the closes gathered for the tickers, stored ones
\* first, then the provider's for each ticker without stored bars
_ensure_price_history(tickers, start, end, db_prices) ==
    LET items(t) == IF t \in DOMAIN db_prices THEN db_prices[t] ELSE <<>>
        missing_ == missing(tickers, db_prices)
        stored == {[date |-> r.date, ticker |-> r.ticker, close |-> float(r.close)] :
                      r \in {x \in UNION {Range(items(t)) : t \in Range(tickers)} : ~x.close.nul}}
        failed == {i \in 1..Len(missing_) : get_history(missing_[i], start, end).err # ""}
        last == IF failed = {} THEN Len(missing_)
                ELSE CHOOSE i \in failed : \A j \in failed : i <= j
        fetched == UNION {{[date |-> item.date, ticker |-> missing_[i], close |-> float(item.close)] :
                              item \in Range(get_history(missing_[i], start, end).data)} :
                          i \in 1..Len(missing_)}
        io == [i \in 1..last |-> [fn |-> "get_history", arg |-> missing_[i]]]
    IN  IF failed # {}
        THEN [err |-> "HTTPException", detail |-> "Missing price data", rows |-> {}, io |-> io]
        ELSE IF stored \cup fetched = {}
        THEN [err |-> "HTTPException", detail |-> "No price data available", rows |-> {}, io |-> io]
        ELSE [err |-> "", detail |-> "", rows |-> stored \cup fetched, io |-> io]

bfill(col) ==
    array([i \in 1..Len(col) |->
        LET present == {j \in i..Len(col) : ~col[j].nan}
        IN  IF present = {} THEN NaN
            ELSE col[CHOOSE j \in present : \A k \in present : j <= k]])

\* DataFrame.ffill of one column: the last value present at or before each row
ffill(col) ==
    array([i \in 1..Len(col) |->
        LET present == {j \in 1..i : ~col[j].nan}
        IN  IF present = {} THEN NaN
            ELSE col[CHOOSE j \in present : \A k \in present : k <= j]])

\* pivot_table(index="date", columns="ticker", values="close"), reindexed to
\* date_index, forward-filled, reindexed to tickers
price_frame(rows, tickers, date_index) ==
    LET cell(t, day) ==
            IF \E r \in rows : r.ticker = t /\ r.date = day
            THEN (CHOOSE r \in rows : r.ticker = t /\ r.date = day).close
            ELSE NaN
    IN  DataFrame([t \in Range(tickers) |->
            ffill(array([i \in 1..Len(date_index) |-> cell(t, date_index[i])]))])

\* (positions * prices).sum(axis=1).fillna(0.0): a missing product is skipped
portfolio_values(positions, prices_, tickers, date_index) ==
    array([i \in 1..Len(date_index) |->
        QSum(array([k \in 1..Len(tickers) |->
                 IF prices_[tickers[k]][i].nan THEN QZero
                 ELSE QMul(positions[tickers[k]][i], prices_[tickers[k]][i])]))])

_compute_returns_whole_grid(values, date_index, start) ==
    LET counted(idx) == ~QLe(values[idx - 1], QZero)
        kept == SelectSeq([k \in 1..(Len(values) - 1) |-> k + 1], counted)
    IN  array([k \in 1..Len(kept) |->
                  QSub(QDiv(values[kept[k]], values[kept[k] - 1]), QOne)])

_compute_returns_current_date(values, date_index, start) ==
    LET counted(idx) == ~(date_index[idx] < start) /\ ~QLe(values[idx - 1], QZero)
        kept == SelectSeq([k \in 1..(Len(values) - 1) |-> k + 1], counted)
    IN  array([k \in 1..Len(kept) |->
                  QSub(QDiv(values[kept[k]], values[kept[k] - 1]), QOne)])

_compute_returns(values, date_index, start) ==
    LET counted(idx) == ~(date_index[idx - 1] < start) /\ ~QLe(values[idx - 1], QZero)
        kept == SelectSeq([k \in 1..(Len(values) - 1) |-> k + 1], counted)
    IN  array([k \in 1..Len(kept) |->
                  QSub(QDiv(values[kept[k]], values[kept[k] - 1]), QOne)])

\* (1 + x) ** (1 / 252) - 1 for the annual rates whose root is rational
period_rate(x) ==
    CASE x = QZero -> QZero
      [] x = Q(-1, 1) -> Q(-1, 1)

\* np.mean
mean(seq) == QDiv(QSum(seq), Q(Len(seq), 1))

variance_uncentered(seq) ==
    mean(array([i \in 1..Len(seq) |-> QMul(seq[i], seq[i])]))

\* np.std(returns, ddof=0) squared
variance(seq) ==
    LET m == mean(seq)
    IN  mean(array([i \in 1..Len(seq) |-> QMul(QSub(seq[i], m), QSub(seq[i], m))]))

maximum_accumulate_last(col) == col

\* np.maximum.accumulate
maximum_accumulate(col) ==
    array([i \in 1..Len(col) |->
              CHOOSE x \in {col[j] : j \in 1..i} : \A j \in 1..i : QLe(col[j], x)])

\* ndarray.min
QMin(seq) == CHOOSE x \in Range(seq) : \A y \in Range(seq) : QLe(x, y)

\* a float that is not computed: None
None == [nul |-> TRUE]

\* total_growth ** (252 / n_days) leaves the range of a float when
\* total_growth exceeds 2 ** (1024 * n_days / 252)
OverflowError(total_growth, n_days) ==
    \/ n_days = 1 /\ QLt(Q(1672, 100), total_growth)
    \/ n_days = 2 /\ QLt(Q(27956, 100), total_growth)
    \/ n_days = 3 /\ QLt(Q(46745, 10), total_growth)

\* the statistics of a return series and a value series; irrational results
\* are kept as the exact quantities they are computed from
statistics(returns, values, rf, mar) ==
    LET n_days == Len(returns)
        rf_daily == period_rate(rf)
        mar_daily == period_rate(mar)
        total_growth == QProd(array([i \in 1..n_days |-> QAdd(returns[i], QOne)]))
        ann_return == IF QLt(QZero, total_growth)
                      THEN [nul |-> FALSE, total_growth |-> total_growth, n_days |-> n_days]
                      ELSE None
        std_daily_sq == variance(returns)
        ann_volatility == IF QLt(QZero, std_daily_sq)
                          THEN [nul |-> FALSE, std_daily_sq |-> std_daily_sq]
                          ELSE None
        sharpe == IF QLt(QZero, std_daily_sq)
                  THEN [nul |-> FALSE, excess |-> QSub(mean(returns), rf_daily),
                        std_daily_sq |-> std_daily_sq]
                  ELSE None
        downside_mask(r) == QLt(r, mar_daily)
        downside == SelectSeq(returns, downside_mask)
        downside_diff == array([i \in 1..Len(downside) |-> QSub(downside[i], mar_daily)])
        downside_std_sq == IF downside # <<>>
                           THEN mean(array([i \in 1..Len(downside) |->
                                               QMul(downside_diff[i], downside_diff[i])]))
                           ELSE QZero
        downside_volatility == IF QLt(QZero, downside_std_sq)
                               THEN [nul |-> FALSE, downside_std_sq |-> downside_std_sq]
                               ELSE None
        sortino == IF ~downside_volatility.nul /\ ~ann_return.nul
                   THEN [nul |-> FALSE, ann_return |-> ann_return, mar |-> mar,
                         downside_std_sq |-> downside_std_sq]
                   ELSE None
        cummax == maximum_accumulate(values)
        drawdowns == array([i \in 1..Len(values) |->
                               IF QLt(QZero, cummax[i])
                               THEN QSub(QDiv(values[i], cummax[i]), QOne)
                               ELSE QZero])
        max_drawdown == IF drawdowns # <<>> THEN QMin(drawdowns) ELSE QZero
        calmar == IF QLt(max_drawdown, QZero) /\ ~ann_return.nul
                  THEN [nul |-> FALSE, ann_return |-> ann_return,
                        max_drawdown |-> QAbs(max_drawdown)]
                  ELSE None
    IN  [n_days |-> n_days, ann_return |-> ann_return, ann_volatility |-> ann_volatility,
         sharpe |-> sharpe, sortino |-> sortino, calmar |-> calmar,
         max_drawdown |-> max_drawdown, downside_volatility |-> downside_volatility,
         rf |-> rf, mar |-> mar]

\* what a metrics computation built before it ended
NoTrace == [date_index |-> <<>>, tickers |-> <<>>, positions |-> <<>>,
            values |-> <<>>, returns |-> <<>>]

\* raise HTTPException(status_code=..., detail=...)
HTTPException(status, detail, io, trace) ==
    [err |-> "HTTPException", status |-> status, detail |-> detail,
     io |-> io, trace |-> trace, result |-> None]

\* the reads issued once the ledger and the prices were fetched
read_ledger == <<[fn |-> "get_all_transactions", arg |-> <<>>]>>

read_prices(price_df) ==
    read_ledger \o <<[fn |-> "load_price_history_for_tickers", arg |-> <<>>]>> \o price_df.io

\* lines 220-270: the statistics and the response
metrics_of_returns(stats, io, trace, portfolio_id, start, end) ==
    IF ~stats.ann_return.nul /\ OverflowError(stats.ann_return.total_growth, stats.n_days)
    THEN [err |-> "OverflowError", status |-> 500, detail |-> "", io |-> io,
          trace |-> trace, result |-> None]
    ELSE [err |-> "", status |-> 200, detail |-> "", io |-> io, trace |-> trace,
          result |-> [nul |-> FALSE, portfolio_id |-> portfolio_id, start |-> start,
                      end |-> end, n_days |-> stats.n_days, tickers |-> trace.tickers,
                      ann_return |-> stats.ann_return,
                      ann_volatility |-> stats.ann_volatility,
                      sharpe |-> stats.sharpe, sortino |-> stats.sortino,
                      calmar |-> stats.calmar, max_drawdown |-> stats.max_drawdown,
                      downside_volatility |-> stats.downside_volatility,
                      rf |-> stats.rf, mar |-> stats.mar]]

\* lines 215-218: the returns
metrics_of_values(returns, values, io, trace, portfolio_id, start, end, rf, mar) ==
    IF returns = <<>>
    THEN HTTPException(400, "Not enough observations to compute metrics", io,
                       [trace EXCEPT !.returns = returns])
    ELSE metrics_of_returns(statistics(returns, values, rf, mar), io,
                            [trace EXCEPT !.returns = returns], portfolio_id, start, end)

values_le_zero_on_grid(values, date_index, start) ==
    \A i \in 1..Len(date_index) : QLe(values[i], QZero)

\* line 212: values.loc[start:].le(0).all()
values_le_zero_from_start(values, date_index, start) ==
    \A i \in 1..Len(date_index) : date_index[i] >= start => QLe(values[i], QZero)

\* lines 211-213: the value of the portfolio on each day
metrics_of_active(values, io, trace, portfolio_id, start, end, rf, mar) ==
    IF values_le_zero_from_start(values, trace.date_index, start)
    THEN HTTPException(400, "Portfolio value is zero throughout the selected period", io,
                       [trace EXCEPT !.values = values])
    ELSE metrics_of_values(_compute_returns(values, trace.date_index, start), values, io,
                           [trace EXCEPT !.values = values], portfolio_id, start, end, rf, mar)

\* lines 204-209: the tickers that were ever held
metrics_of_valid(active_tickers, prices_, io, trace, portfolio_id, start, end, rf, mar) ==
    IF active_tickers = <<>>
    THEN HTTPException(400, "No active positions to analyze in the selected period", io, trace)
    ELSE metrics_of_active(
             portfolio_values(trace.positions, prices_, active_tickers, trace.date_index),
             io, [trace EXCEPT !.tickers = active_tickers],
             portfolio_id, start, end, rf, mar)

\* line 198: the columns of the price frame that hold a price on some day
valid_columns(tickers, prices_, date_index) ==
    LET notna_any(t) == \E i \in 1..Len(date_index) : ~prices_[t][i].nan
    IN  SelectSeq(tickers, notna_any)

active_tickers_all(valid, positions, date_index) == valid

\* line 204: the valid columns whose quantity is not zero on some day
active_tickers(valid, positions, date_index) ==
    LET abs_max_positive(t) == \E i \in 1..Len(date_index) : positions[t][i] # QZero
    IN  SelectSeq(valid, abs_max_positive)

\* lines 194-203: the price frame and its columns with a price
metrics_of_prices(prices_, io, trace, portfolio_id, start, end, rf, mar) ==
    IF valid_columns(trace.tickers, prices_, trace.date_index) = <<>>
    THEN HTTPException(400, "Price data is unavailable for the requested tickers", io, trace)
    ELSE metrics_of_valid(
             active_tickers(valid_columns(trace.tickers, prices_, trace.date_index),
                            trace.positions, trace.date_index),
             prices_, io, trace, portfolio_id, start, end, rf, mar)

\* lines 192-193: the stored prices and the provider's
metrics_of_grid(price_df, trace, portfolio_id, start, end, rf, mar) ==
    IF price_df.err # ""
    THEN HTTPException(400, price_df.detail, read_prices(price_df), trace)
    ELSE metrics_of_prices(price_frame(price_df.rows, trace.tickers, trace.date_index),
                           read_prices(price_df), trace, portfolio_id, start, end, rf, mar)

\* lines 186-190: the daily grid and the positions on it
metrics_of_tickers(txs, tickers, date_index, portfolio_id, start, end, rf, mar) ==
    IF tickers = <<>>
    THEN HTTPException(400, "Portfolio has no equity transactions", read_ledger, NoTrace)
    ELSE metrics_of_grid(
             _ensure_price_history(tickers, date_index[1], end,
                 load_price_history_for_tickers(tickers, date_index[1], end)),
             [NoTrace EXCEPT !.date_index = date_index, !.tickers = tickers,
                             !.positions = _timeseries_positions(txs, tickers, date_index)],
             portfolio_id, start, end, rf, mar)

\* min(tx.date for tx in transactions)
first_tx_date(txs) ==
    CHOOSE d \in {tx.date : tx \in Range(txs)} : \A tx \in Range(txs) : d <= tx.date

\* lines 179-188: the ledger up to end
metrics_of_transactions(txs, portfolio_id, start, end, rf, mar) ==
    IF txs = <<>>
    THEN HTTPException(400, "Portfolio has no transactions in the requested range",
                       read_ledger, NoTrace)
    ELSE metrics_of_tickers(txs, sorted({tx.ticker : tx \in Range(txs)}),
             date_range(IF first_tx_date(txs) < start THEN first_tx_date(txs) ELSE start, end),
             portfolio_id, start, end, rf, mar)

start_after_end_unchecked(start, end) == FALSE

\* if start > end
start_after_end(start, end) == start > end

\* [err, status, detail, io, trace, result]
compute_portfolio_metrics(portfolio_id, start, end, rf, mar) ==
    IF start_after_end(start, end)
    THEN HTTPException(400, "start must be before or equal to end", <<>>, NoTrace)
    ELSE metrics_of_transactions(get_all_transactions(portfolio_id, end),
                                 portfolio_id, start, end, rf, mar)

\* what the caller of a metrics computation receives
metrics_response(op, r, portfolio_id, start, end, rf, mar) ==
    [op |-> op, err |-> r.err, status |-> r.status, detail |-> r.detail,
     portfolio_id |-> portfolio_id, start |-> start, end |-> end, rf |-> rf, mar |-> mar,
     io |-> r.io, trace |-> r.trace, result |-> r.result]

\* a caller of the service function, as the tests are
call_compute_portfolio_metrics(portfolio_id, start, end, rf, mar) ==
    /\ resp' = metrics_response("compute_portfolio_metrics",
                   compute_portfolio_metrics(portfolio_id, start, end, rf, mar),
                   portfolio_id, start, end, rf, mar)
    /\ UNCHANGED <<today, portfolios, transactions, prices, provider,
                   next_portfolio_id, next_tx_id>>

\* a caller that has an answer of the service function and asks again with
\* the same arguments: both answers side by side
rerun_compute_portfolio_metrics ==
    /\ resp.op = "compute_portfolio_metrics"
    /\ resp' = [op |-> "rerun_compute_portfolio_metrics", err |-> resp.err,
                first |-> resp,
                second |-> metrics_response("compute_portfolio_metrics",
                               compute_portfolio_metrics(resp.portfolio_id, resp.start,
                                                         resp.end, resp.rf, resp.mar),
                               resp.portfolio_id, resp.start, resp.end, resp.rf, resp.mar)]
    /\ UNCHANGED <<today, portfolios, transactions, prices, provider,
                   next_portfolio_id, next_tx_id>>

\* the service's answer behind the read of the portfolio
after_get_portfolio(r) == [r EXCEPT !.io = <<[fn |-> "get_portfolio", arg |-> <<>>]>> \o r.io]

(* main.py: GET /portfolios/{portfolio_id}/metrics *)
portfolio_metrics(portfolio_id, start, end, rf, mar) ==
    /\ resp' = metrics_response("portfolio_metrics",
                   IF start > end
                   THEN HTTPException(400, "from must be on or before to", <<>>, NoTrace)
                   ELSE IF get_portfolio(portfolio_id) = {}
                   THEN after_get_portfolio(HTTPException(404, "Portfolio not found", <<>>, NoTrace))
                   ELSE after_get_portfolio(
                            compute_portfolio_metrics(portfolio_id, start, end, rf, mar)),
                   portfolio_id, start, end, rf, mar)
    /\ UNCHANGED <<today, portfolios, transactions, prices, provider,
                   next_portfolio_id, next_tx_id>>

-----------------------------------------------------------------------------
(* services/portfolios.py: compute_positions and compute_portfolio_metrics as
   coroutines.  Each suspends at its awaits (the read of the ledger, the read
   of the price store, the calls of the provider) and other requests run
   meanwhile; a request keeps what it read in local variables and works on
   its own session.  The requests in flight are held in resp.slots, one
   record per request: its pc is the await it is suspended at. *)

NoRequest == [pc |-> "idle"]

\* the requests in flight
Slots == IF resp.op = "requests" THEN resp.slots ELSE <<NoRequest, NoRequest>>

InFlight == \E slot \in DOMAIN Slots : Slots[slot].pc # "idle"

SetSlot(slot, request) ==
    resp' = [op |-> "requests", err |-> "", slots |-> [Slots EXCEPT ![slot] = request]]

rows_added_fetched(fetched) == fetched

\* the rows a request adds to its session from what it fetched: neither
\* function adds, flushes or commits anything; the fetched prices stay in
\* fallback_prices and in the frame
rows_added(fetched) == {}

\* the price store once the request has passed its provider calls
store_after(fetched) == on_conflict_do_update(rows_added(fetched))

\* a fetched close as a bar of the price store
fetched_bar(ticker, day, close) ==
    [ticker |-> ticker, date |-> day, open |-> NoneDec, high |-> NoneDec,
     low |-> NoneDec, close |-> close, volume |-> NoneDec]

start_compute_positions(slot, portfolio_id) ==
    /\ Slots[slot].pc = "idle"
    /\ SetSlot(slot, [pc |-> "aggregate_positions", fn |-> "compute_positions",
                      portfolio_id |-> portfolio_id])
    /\ UNCHANGED <<today, portfolios, transactions, prices, provider,
                   next_portfolio_id, next_tx_id>>

\* lines 43-49: the ledger is read; nothing to price ends the request
await_aggregate_positions(slot) ==
    LET request == Slots[slot]
        aggregates == aggregate_positions(request.portfolio_id)
        rows == filtered(aggregates)
    IN  /\ request.pc = "aggregate_positions"
        /\ SetSlot(slot,
               IF Len(aggregates) = 0 \/ Len(rows) = 0
               THEN [request EXCEPT !.pc = "done"] @@ [answer |-> <<>>]
               ELSE [request EXCEPT !.pc = "get_latest_prices_for"] @@ [rows |-> rows])
        /\ UNCHANGED <<today, portfolios, transactions, prices, provider,
                       next_portfolio_id, next_tx_id>>

\* lines 51-52: the latest stored bars are read
await_get_latest_prices_for(slot) ==
    LET request == Slots[slot]
        tickers == {request.rows[i].ticker : i \in 1..Len(request.rows)}
    IN  /\ request.pc = "get_latest_prices_for"
        /\ SetSlot(slot, [request EXCEPT !.pc = "get_last_close"]
                         @@ [db_prices |-> get_latest_prices_for(tickers)])
        /\ UNCHANGED <<today, portfolios, transactions, prices, provider,
                       next_portfolio_id, next_tx_id>>

\* lines 53-95: the provider is asked for the tickers without a stored
\* close, and the positions are built and returned
await_get_last_close(slot) ==
    LET request == Slots[slot]
        rows == request.rows
        tickers == [i \in 1..Len(rows) |-> rows[i].ticker]
        is_missing(t) == ~\E r \in request.db_prices : r.ticker = t /\ ~r.close.nul
        fallback_prices == fetch_fallback_prices(SelectSeq(tickers, is_missing))
        fetched == {fetched_bar(t, today, fallback_prices[t]) : t \in DOMAIN fallback_prices}
    IN  /\ request.pc = "get_last_close"
        /\ SetSlot(slot, [request EXCEPT !.pc = "done"]
                         @@ [answer |-> [i \in 1..Len(rows) |->
                                 PositionOut(rows[i], request.db_prices, fallback_prices)]])
        /\ prices' = store_after(fetched)
        /\ UNCHANGED <<today, portfolios, transactions, provider,
                       next_portfolio_id, next_tx_id>>

start_compute_portfolio_metrics(slot, portfolio_id, start, end, rf, mar) ==
    /\ Slots[slot].pc = "idle"
    /\ SetSlot(slot, [pc |-> "get_all_transactions", fn |-> "compute_portfolio_metrics",
                      portfolio_id |-> portfolio_id, start |-> start, end |-> end,
                      rf |-> rf, mar |-> mar])
    /\ UNCHANGED <<today, portfolios, transactions, prices, provider,
                   next_portfolio_id, next_tx_id>>

\* lines 186-187: the daily grid of a ledger
grid_of(txs, start, end) ==
    date_range(IF first_tx_date(txs) < start THEN first_tx_date(txs) ELSE start, end)

\* lines 175-188: the ledger up to end is read; a request that cannot go on
\* ends here
await_get_all_transactions(slot) ==
    LET request == Slots[slot]
        txs == get_all_transactions(request.portfolio_id, request.end)
        tickers == sorted({tx.ticker : tx \in Range(txs)})
    IN  /\ request.pc = "get_all_transactions"
        /\ SetSlot(slot,
               IF start_after_end(request.start, request.end)
               THEN [request EXCEPT !.pc = "done"]
                    @@ [answer |-> HTTPException(400, "start must be before or equal to end",
                                                 <<>>, NoTrace)]
               ELSE IF txs = <<>> \/ tickers = <<>>
               THEN [request EXCEPT !.pc = "done"]
                    @@ [answer |-> metrics_of_transactions(txs, request.portfolio_id,
                                       request.start, request.end, request.rf, request.mar)]
               ELSE [request EXCEPT !.pc = "load_price_history_for_tickers"]
                    @@ [txs |-> txs, tickers |-> tickers,
                        date_index |-> grid_of(txs, request.start, request.end)])
        /\ UNCHANGED <<today, portfolios, transactions, prices, provider,
                       next_portfolio_id, next_tx_id>>

\* line 192: the stored bars of the grid are read
await_load_price_history_for_tickers(slot) ==
    LET request == Slots[slot]
    IN  /\ request.pc = "load_price_history_for_tickers"
        /\ SetSlot(slot, [request EXCEPT !.pc = "get_history"]
                         @@ [db_prices |-> load_price_history_for_tickers(
                                 request.tickers, request.date_index[1], request.end)])
        /\ UNCHANGED <<today, portfolios, transactions, prices, provider,
                       next_portfolio_id, next_tx_id>>

\* lines 193-270: the provider is asked for the tickers without stored bars,
\* and the metrics are computed and returned
await_get_history(slot) ==
    LET request == Slots[slot]
        missing_ == missing(request.tickers, request.db_prices)
        fetched == UNION {{fetched_bar(missing_[i], item.date, item.close) :
                              item \in Range(get_history(missing_[i], request.date_index[1],
                                                         request.end).data)} :
                          i \in 1..Len(missing_)}
    IN  /\ request.pc = "get_history"
        /\ SetSlot(slot, [request EXCEPT !.pc = "done"]
                         @@ [answer |-> metrics_of_grid(
                                 _ensure_price_history(request.tickers, request.date_index[1],
                                                       request.end, request.db_prices),
                                 [NoTrace EXCEPT !.date_index = request.date_index,
                                                 !.tickers = request.tickers,
                                                 !.positions = _timeseries_positions(
                                                     request.txs, request.tickers,
                                                     request.date_index)],
                                 request.portfolio_id, request.start, request.end,
                                 request.rf, request.mar)])
        /\ prices' = store_after(fetched)
        /\ UNCHANGED <<today, portfolios, transactions, provider,
                       next_portfolio_id, next_tx_id>>

\* the caller takes the answer: the request is over
return_answer(slot) ==
    /\ Slots[slot].pc = "done"
    /\ SetSlot(slot, NoRequest)
    /\ UNCHANGED <<today, portfolios, transactions, prices, provider,
                   next_portfolio_id, next_tx_id>>

-----------------------------------------------------------------------------
(* main.py: POST /ingest/{ticker}/latest.  Its first statement calls
   read_prices_last, a name that main.py neither imports nor defines (nor
   does any module of the repository): the call raises NameError before
   anything is read, fetched or written, and the request ends as an internal
   server error. *)

ingest_latest(ticker) ==
    /\ resp' = [op |-> "ingest_latest", ticker |-> ticker, err |-> "NameError",
                name |-> "read_prices_last", status |-> 500, result |-> None]
    /\ UNCHANGED <<today, portfolios, transactions, prices, provider,
                   next_portfolio_id, next_tx_id>>

-----------------------------------------------------------------------------
(* services/calculations/metrics.py: metrics of one ticker over the closes
   that get_history returned.  A payload is [start, end, count, data], data a
   sequence of [date, close]; get_history returns no row without a close.
   Results that are roots or powers are kept as the exact quantities they are
   computed from. *)

TRADING_DAYS == 252

\* float(round(x, nd)) with nd = 6, None stays None
_r(x) ==
    IF "nul" \in DOMAIN x THEN x
    ELSE IF x.nan THEN x
    ELSE LET a == Abs(x.n)
             whole == a \div x.d
             scaled == (a % x.d) * 1000000
             q == scaled \div x.d
             rem == scaled % x.d
             up == IF 2 * rem > x.d THEN 1 ELSE IF 2 * rem < x.d THEN 0 ELSE q % 2
         IN  Q(Sign(x.n) * (whole * 1000000 + q + up), 1000000)

\* the payload of get_history for closes on consecutive days from start
history_payload(closes, start, end) ==
    [start |-> start, end |-> end, count |-> Len(closes),
     data |-> [i \in 1..Len(closes) |-> [date |-> start + i - 1, close |-> float(closes[i])]]]

\* df["close"]
close_column(payload) == array([i \in 1..Len(payload.data) |-> payload.data[i].close])

\* Series.pct_change(periods): no value on the first rows, nor for 0 / 0
pct_change(col, periods) ==
    array([i \in 1..Len(col) |->
        IF i <= periods THEN NaN
        ELSE CASE col[i - periods] # QZero ->
                      QSub(QDiv(col[i], col[i - periods]), QOne)
               [] col[i - periods] = QZero /\ col[i] = QZero -> NaN])

\* Series.dropna
dropna(col) == LET notna(x) == ~x.nan IN SelectSeq(col, notna)

\* Series.std(ddof=1) squared: NaN for a single value
variance_ddof1(seq) ==
    IF Len(seq) < 2 THEN NaN
    ELSE LET m == mean(seq)
         IN  QDiv(QSum(array([i \in 1..Len(seq) |-> QMul(QSub(seq[i], m), QSub(seq[i], m))])),
                  Q(Len(seq) - 1, 1))

\* (1 + rets).cumprod()
cumprod_plus_one(rets) ==
    array([i \in 1..Len(rets) |->
              QProd(array([k \in 1..i |-> QAdd(QOne, rets[k])]))])

\* ((equity / peak) - 1.0).min()
max_dd_of(rets) ==
    LET equity == cumprod_plus_one(rets)
        peak == maximum_accumulate(equity)
    IN  QMin(array([i \in 1..Len(equity) |-> QSub(QDiv(equity[i], peak[i]), QOne)]))

\* the statistics both functions compute: ann_return is (1 + mean_daily) **
\* 252 - 1, ann_vol is sqrt(var_daily * 252), sharpe is excess * 252 / ann_vol
basics(rets, rf) ==
    LET mean_daily == mean(rets)
        var_daily == variance_ddof1(rets)
        ann_vol_positive == ~var_daily.nan /\ QLt(QZero, var_daily)
    IN  [ann_return |-> [nul |-> FALSE, mean_daily |-> mean_daily],
         ann_volatility |-> [nul |-> FALSE, var_daily |-> var_daily],
         sharpe |-> IF ann_vol_positive
                    THEN [nul |-> FALSE,
                          excess |-> QSub(mean_daily, IF rf # QZero THEN period_rate(rf) ELSE QZero),
                          var_daily |-> var_daily]
                    ELSE None,
         max_drawdown |-> _r(max_dd_of(rets))]

\* raise HTTPException in a calculation: nothing is returned
calculation_error(status, detail) ==
    [err |-> "HTTPException", status |-> status, detail |-> detail, result |-> None]

calculation_result(result) ==
    [err |-> "", status |-> 200, detail |-> "", result |-> [nul |-> FALSE] @@ result]

basic_metrics(payload, rf) ==
    IF payload.count < 2
    THEN calculation_error(400, "Se requieren al menos 2 datos de cierre.")
    ELSE IF dropna(pct_change(close_column(payload), 1)) = <<>>
    THEN calculation_error(400, "No hay retornos validos para el rango indicado.")
    ELSE calculation_result(
             [n |-> payload.count, rf |-> rf]
             @@ basics(dropna(pct_change(close_column(payload), 1)), rf))

\* r < (1 + mar) ** (1 / 252) - 1; the 252th root of 1.5 lies between
\* 1.001610 and 1.001611
below_mar_daily(r, mar) ==
    CASE mar = QZero -> QLt(r, QZero)
      [] mar = Q(1, 2) /\ ~QLt(r, Q(1611, 1000000)) -> FALSE
      [] mar = Q(1, 2) /\ QLe(r, Q(1610, 1000000)) -> TRUE

\* the calendar: day 0 is the first of January, a year has 365 days
year(day) == day \div 365

year_start(y) == y * 365

\* lines 108-120: [downside_volatility, sortino]; sortino is (ann_return -
\* mar) divided by over
downside_statistics(rets, ann_return, mar) ==
    LET below(r) == below_mar_daily(r, mar)
        downside == SelectSeq(rets, below)
        var_downside == variance_ddof1(downside)
    IN  IF downside = <<>>
        THEN [downside_volatility |-> [nul |-> FALSE, var_daily |-> QZero],
              sortino |-> [nul |-> FALSE, ann_return |-> ann_return, mar |-> mar,
                           over |-> "1e-12"]]
        ELSE [downside_volatility |-> [nul |-> FALSE, var_daily |-> var_downside],
              sortino |-> IF ~var_downside.nan /\ QLt(QZero, var_downside)
                          THEN [nul |-> FALSE, ann_return |-> ann_return, mar |-> mar,
                                over |-> "downside_vol_ann"]
                          ELSE None]

\* lines 125-137: the return since the first row of the year of end
ytd_return_of(payload) ==
    LET in_year(row) == row.date >= year_start(year(payload.end))
        df_ytd == SelectSeq(payload.data, in_year)
    IN  IF Len(df_ytd) >= 2
        THEN _r(QSub(QDiv(df_ytd[Len(df_ytd)].close, df_ytd[1].close), QOne))
        ELSE None

advanced_metrics(payload, rf, mar) ==
    IF payload.count < 2
    THEN calculation_error(400, "Se requieren al menos 2 datos de cierre.")
    ELSE IF dropna(pct_change(close_column(payload), 1)) = <<>>
    THEN calculation_error(400, "No hay retornos validos para el rango indicado.")
    ELSE LET rets == dropna(pct_change(close_column(payload), 1))
             basic == basics(rets, rf)
         IN  calculation_result(
                 [n |-> payload.count, rf |-> rf, mar |-> mar,
                  calmar |-> IF QLt(max_dd_of(rets), QZero)
                             THEN [nul |-> FALSE, ann_return |-> basic.ann_return,
                                   max_dd |-> QAbs(max_dd_of(rets))]
                             ELSE None,
                  ytd_return |-> ytd_return_of(payload)]
                 @@ downside_statistics(rets, basic.ann_return, mar)
                 @@ basic)

\* what the caller of a calculation receives, with what it asked
calculation_response(op, payload, args, r) ==
    [op |-> op, payload |-> payload, args |-> args, err |-> r.err, status |-> r.status,
     detail |-> r.detail, result |-> r.result]

(* main.py: GET /metrics/{ticker}/basic, get_history answering payload *)
metrics_basic(payload, rf) ==
    /\ resp' = calculation_response("metrics_basic", payload, [rf |-> rf],
                                    basic_metrics(payload, rf))
    /\ UNCHANGED <<today, portfolios, transactions, prices, provider,
                   next_portfolio_id, next_tx_id>>

(* main.py: GET /metrics/{ticker}/advanced, get_history answering payload *)
metrics_advanced(payload, rf, mar) ==
    /\ resp' = calculation_response("metrics_advanced", payload, [rf |-> rf, mar |-> mar],
                                    advanced_metrics(payload, rf, mar))
    /\ UNCHANGED <<today, portfolios, transactions, prices, provider,
                   next_portfolio_id, next_tx_id>>

-----------------------------------------------------------------------------
(* services/calculations/signals.py *)

RECURSIVE ewm_at(_, _, _)
\* Series.ewm(alpha=alpha, adjust=False).mean() at row i >= 2 of a column
\* whose first row alone has no value: the average starts at row 2
ewm_at(col, alpha, i) ==
    IF i = 2 THEN col[2]
    ELSE QAdd(QMul(QSub(QOne, alpha), ewm_at(col, alpha, i - 1)), QMul(alpha, col[i]))

\* delta.clip(lower=0.0) and -delta.clip(upper=0.0) of series.diff()
gain_column(series) ==
    array([i \in 1..Len(series) |->
        IF i = 1 THEN NaN
        ELSE IF QLt(series[i - 1], series[i]) THEN QSub(series[i], series[i - 1]) ELSE QZero])

loss_column(series) ==
    array([i \in 1..Len(series) |->
        IF i = 1 THEN NaN
        ELSE IF QLt(series[i], series[i - 1]) THEN QSub(series[i - 1], series[i]) ELSE QZero])

series_too_short_unchecked(series, period) == FALSE

\* if len(series) < period + 1
series_too_short(series, period) == Len(series) < period + 1

\* None, or the last value of 100 - 100 / (1 + avg_gain / avg_loss); it is
\* NaN, and None is returned, when avg_loss is 0 or has no value
_rsi(series, period) ==
    IF series_too_short(series, period) THEN None
    ELSE LET n == Len(series)
             avg_gain == ewm_at(gain_column(series), Q(1, period), n)
             avg_loss == ewm_at(loss_column(series), Q(1, period), n)
         IN  IF n < 2 \/ avg_loss = QZero THEN None
             ELSE QSub(Q(100, 1), QDiv(Q(100, 1), QAdd(QOne, QDiv(avg_gain, avg_loss))))

\* Series.rolling(window).mean(): no value on the first window - 1 rows
rolling_mean(col, window) ==
    array([i \in 1..Len(col) |->
        IF i < window THEN NaN ELSE mean(SubSeq(col, i - window + 1, i))])

cross_flag_or_equal(sma_fast_series, sma_slow_series) ==
    array([i \in 1..Len(sma_fast_series) |->
        IF /\ ~sma_fast_series[i].nan
           /\ ~sma_slow_series[i].nan
           /\ QLe(sma_slow_series[i], sma_fast_series[i])
        THEN 1 ELSE 0])

\* (sma_fast_series > sma_slow_series).astype(int): 0 where a value is missing
cross_flag(sma_fast_series, sma_slow_series) ==
    array([i \in 1..Len(sma_fast_series) |->
        IF /\ ~sma_fast_series[i].nan
           /\ ~sma_slow_series[i].nan
           /\ QLt(sma_slow_series[i], sma_fast_series[i])
        THEN 1 ELSE 0])

\* lines 63-71: [last_cross_date, last_cross_type] of the last row where the
\* flag differs from the row before
last_cross(flag, data) ==
    LET changed == {i \in 2..Len(flag) : flag[i] - flag[i - 1] # 0}
        idx_last == CHOOSE i \in changed : \A j \in changed : j <= i
    IN  IF changed = {}
        THEN [last_cross_date |-> None, last_cross_type |-> None]
        ELSE [last_cross_date |-> [nul |-> FALSE, date |-> data[idx_last].date],
              last_cross_type |-> [nul |-> FALSE,
                                   type |-> IF flag[idx_last] - flag[idx_last - 1] > 0
                                            THEN "golden" ELSE "death"]]

\* bool(sma_fast > sma_slow) of the last row
cross_now_of(sma_fast_series, sma_slow_series) ==
    LET sma_fast == sma_fast_series[Len(sma_fast_series)]
        sma_slow == sma_slow_series[Len(sma_slow_series)]
    IN  ~sma_fast.nan /\ ~sma_slow.nan /\ QLt(sma_slow, sma_fast)

\* lines 47-93 of tech_signals, over the two moving averages
signals_of(payload, closes, sma_fast_series, sma_slow_series, window, fast, slow, rsi_period) ==
    calculation_result(
        [count |-> payload.count,
         price |-> _r(closes[Len(closes)]),
         momentum_window |-> window,
         momentum |-> _r(pct_change(closes, window)[Len(closes)]),
         sma_fast_window |-> fast,
         sma_fast |-> _r(sma_fast_series[Len(closes)]),
         sma_slow_window |-> slow,
         sma_slow |-> _r(sma_slow_series[Len(closes)]),
         cross_now |-> cross_now_of(sma_fast_series, sma_slow_series),
         rsi_period |-> rsi_period,
         rsi |-> _r(_rsi(closes, rsi_period))]
        @@ last_cross(cross_flag(sma_fast_series, sma_slow_series), payload.data))

tech_signals(payload, window, fast, slow, rsi_period) ==
    IF payload.count < Max2(window, slow) + 1
    THEN calculation_error(400, "Se requieren al menos max(window, slow) + 1 observaciones")
    ELSE signals_of(payload, close_column(payload),
                    rolling_mean(close_column(payload), fast),
                    rolling_mean(close_column(payload), slow),
                    window, fast, slow, rsi_period)

(* main.py: GET /signals/{ticker}/tech, get_history answering payload *)
signals_tech(payload, window, fast, slow, rsi_period) ==
    /\ resp' = calculation_response("signals_tech", payload,
                   [window |-> window, fast |-> fast, slow |-> slow, rsi_period |-> rsi_period],
                   tech_signals(payload, window, fast, slow, rsi_period))
    /\ UNCHANGED <<today, portfolios, transactions, prices, provider,
                   next_portfolio_id, next_tx_id>>

-----------------------------------------------------------------------------
(* the clock: date.today() and CURRENT_DATE *)

AdvanceDay ==
    /\ today < MaxDay
    /\ today' = today + 1
    /\ resp' = NoResponse
    /\ UNCHANGED <<portfolios, transactions, prices, provider,
                   next_portfolio_id, next_tx_id>>

-----------------------------------------------------------------------------
(* The ledger: portfolios and transactions, from an empty database *)

Init ==
    /\ today = 0
    /\ portfolios = {}
    /\ transactions = {}
    /\ prices = {}
    /\ provider = [t \in Tickers |-> "ok"]
    /\ next_portfolio_id = 1
    /\ next_tx_id = 1
    /\ resp = NoResponse

NameInputs == {<<"P">>, <<" ", "P">>, <<"Q">>, <<" ">>, <<>>}

TickerInputs == {<<>>, <<" ">>, <<" ", "a">>}

TypeInputs == {"sell", "swap"}

QuantityInputs == {NoneDec, D(-1, 0), D(0, 0), D(4, 9), D(6, 9)}

PriceInputs == {NoneDec, D(-1, 0), D(-4, 9), D(0, 0)}

AmountInputs == {NoneDec, D(-1, 0), D(-4, 9), D(0, 0)}

TradeInputs ==
    {[ticker |-> <<"A">>, type |-> t, date |-> 0, quantity |-> D(1, 0),
      price |-> D(5, 0), amount |-> NoneDec] : t \in {"BUY", "SELL"}}

CreditInputs ==
    {[ticker |-> <<"A">>, type |-> t, date |-> 0, quantity |-> NoneDec,
      price |-> NoneDec, amount |-> D(3, 0)] : t \in {"DIVIDEND", "FEE"}}

\* the payloads that differ from a well-formed one in at most one field
LedgerTxInputs ==
    UNION {
        {[b EXCEPT !.ticker = v] : v \in TickerInputs}
        \cup {[b EXCEPT !.type = v] : v \in TypeInputs}
        \cup {[b EXCEPT !.date = v] : v \in {MaxDay, MaxDay + 1}}
        : b \in TradeInputs \cup CreditInputs}
    \cup UNION {
        {[b EXCEPT !.quantity = v] : v \in QuantityInputs}
        \cup {[b EXCEPT !.price = v] : v \in PriceInputs}
        : b \in TradeInputs}
    \cup UNION {{[b EXCEPT !.amount = v] : v \in AmountInputs} : b \in CreditInputs}

\* transactions of every shape, well-formed or not, against one portfolio
NextLedger ==
    \/ create_portfolio(<<"P">>)
    \/ \E pid \in PortfolioIds, x \in LedgerTxInputs :
          create_transaction(pid, x.ticker, x.type, x.date, x.quantity, x.price, x.amount)
    \/ \E pid \in PortfolioIds, tid \in TxIds : delete_transaction(pid, tid)
    \/ AdvanceDay

SpecLedger == Init /\ [][NextLedger]_vars

\* portfolios created and deleted, with well-formed transactions
NextPortfolios ==
    \/ \E name \in NameInputs : create_portfolio(name)
    \/ \E name \in NameInputs : post_portfolios(name)
    \/ \E pid \in PortfolioIds : delete_portfolio(pid)
    \/ \E pid \in PortfolioIds, x \in TradeInputs \cup CreditInputs :
          create_transaction(pid, x.ticker, x.type, x.date, x.quantity, x.price, x.amount)
    \/ \E pid \in PortfolioIds, tid \in TxIds : delete_transaction(pid, tid)

SpecPortfolios == Init /\ [][NextPortfolios]_vars

-----------------------------------------------------------------------------
(* The price store under upserts of bars *)

Bar(date, open, high, low, close, volume) ==
    [date |-> date, open |-> open, high |-> high, low |-> low, close |-> close,
     volume |-> volume]

\* bars of two tickers on two days: the same bar with two sets of values,
\* values beyond 6 decimals, missing fields, two rows of one date, no row
PriceBarInputs ==
    {[ticker |-> <<"a">>,
      rows |-> {Bar(0, D(4, 0), D(6, 0), D(3, 0), D(5, 0), D(15, 1))}],
     [ticker |-> <<"A">>,
      rows |-> {Bar(0, D(5, 0), D(7, 0), D(4, 0), D(6, 0), NoneDec)}],
     [ticker |-> <<"A">>,
      rows |-> {Bar(0, D(4, 0), D(6, 0), D(3, 0), D(5, 0), D(2, 0)),
                Bar(1, D(5, 0), D(5, 0), D(5, 0), D(66749996, 7), D(3, 0))}],
     [ticker |-> <<"A">>,
      rows |-> {Bar(1, D(4, 0), D(6, 0), D(3, 0), D(5, 0), D(2, 0)),
                Bar(1, D(5, 0), D(7, 0), D(4, 0), D(6, 0), D(2, 0))}],
     [ticker |-> <<"A">>, rows |-> {[date |-> 1, close |-> D(7, 0)]}],
     [ticker |-> <<"B">>, rows |-> {[date |-> 1, close |-> D(15, 7), volume |-> D(-15, 1)]}],
     [ticker |-> <<"b">>, rows |-> {Bar(0, NoneDec, NoneDec, NoneDec, D(9, 0), D(1, 0))}],
     [ticker |-> <<"B">>, rows |-> {}]}

NextPrices ==
    \E x \in PriceBarInputs : upsert_prices(x.ticker, x.rows)

SpecPrices == Init /\ [][NextPrices]_vars

-----------------------------------------------------------------------------
(* The price store under upserts and requests for the latest days *)

NextIngest ==
    \/ \E x \in PriceBarInputs : upsert_prices(x.ticker, x.rows)
    \/ \E ticker \in {<<"A">>, <<"a">>, <<"B">>} : ingest_latest(ticker)
    \/ AdvanceDay

SpecIngest == Init /\ [][NextIngest]_vars

-----------------------------------------------------------------------------
(* Positions of one portfolio, over trades, prices and provider outages *)

PositionTxInputs ==
    {[ticker |-> <<"A">>, type |-> t, date |-> 0, quantity |-> D(x[1], 0),
      price |-> D(x[2], 0), amount |-> NoneDec] :
        t \in {"BUY", "SELL"}, x \in {<<1, 10>>, <<2, 5>>}}
    \cup
    {[ticker |-> <<"A">>, type |-> "BUY", date |-> 0, quantity |-> D(10, 0),
      price |-> D(100, 0), amount |-> NoneDec],
     [ticker |-> <<"A">>, type |-> "DIVIDEND", date |-> 0, quantity |-> NoneDec,
      price |-> NoneDec, amount |-> D(3, 0)],
     [ticker |-> <<"B">>, type |-> "BUY", date |-> 0, quantity |-> D(5, 1),
      price |-> D(5, 0), amount |-> NoneDec],
     [ticker |-> <<"B">>, type |-> "SELL", date |-> 0, quantity |-> D(5, 1),
      price |-> D(5, 0), amount |-> NoneDec]}

\* batches of bars [date, close] for upsert_prices
PositionPriceInputs ==
    {[ticker |-> <<"a">>, rows |-> {[date |-> 0, close |-> D(110, 0)]}],
     [ticker |-> <<"A">>, rows |-> {[date |-> 1, close |-> D(66749996, 7)]}],
     [ticker |-> <<"A">>, rows |-> {[date |-> 1, close |-> NoneDec]}],
     [ticker |-> <<"B">>, rows |-> {[date |-> 0, close |-> D(5, 0)]}]}

ProviderModes == {"ok", "down", "nodata"}

NextPositions ==
    \/ create_portfolio(<<"P">>)
    \/ \E x \in PositionTxInputs :
          create_transaction(1, x.ticker, x.type, x.date, x.quantity, x.price, x.amount)
    \/ \E tid \in TxIds : delete_transaction(1, tid)
    \/ \E x \in PositionPriceInputs : upsert_prices(x.ticker, x.rows)
    \/ \E mode \in ProviderModes : SetProvider(<<"A">>, mode)
    \/ \E pid \in PortfolioIds : portfolio_positions(pid)

SpecPositions == Init /\ [][NextPositions]_vars

-----------------------------------------------------------------------------
(* Metrics of one portfolio, asked on the last day of the calendar *)

\* the service is brought up with empty tables on the last day
InitMetrics ==
    /\ today = MaxDay
    /\ portfolios = {}
    /\ transactions = {}
    /\ prices = {}
    /\ provider = [t \in Tickers |-> "ok"]
    /\ next_portfolio_id = 1
    /\ next_tx_id = 1
    /\ resp = NoResponse

MetricsTxInputs ==
    {[ticker |-> <<"A">>, type |-> x[1], date |-> d, quantity |-> D(x[2], 0),
      price |-> D(5, 0), amount |-> NoneDec] :
        x \in {<<"SELL", 1>>, <<"BUY", 2>>}, d \in {0, 2}}
    \cup
    {[ticker |-> <<"A">>, type |-> "DIVIDEND", date |-> 0, quantity |-> NoneDec,
      price |-> NoneDec, amount |-> D(3, 0)],
     [ticker |-> <<"B">>, type |-> "BUY", date |-> 0, quantity |-> D(2, 0),
      price |-> D(5, 0), amount |-> NoneDec]}

\* whole series for upsert_prices: A flat, A rising, B starting late with a
\* bar that has no close
MetricsPriceInputs ==
    {[ticker |-> <<"A">>, rows |-> {[date |-> d, close |-> D(10, 0)] : d \in Days}],
     [ticker |-> <<"A">>,
      rows |-> {[date |-> d, close |-> IF d = 0 THEN D(5, 0) ELSE D(10, 0)] : d \in Days}],
     [ticker |-> <<"B">>,
      rows |-> {[date |-> 2, close |-> D(10, 0)], [date |-> 3, close |-> NoneDec]}]}

\* requests [start, end, mar]: the whole calendar, parts of it, and start > end
MetricsInputs ==
    {[start |-> 0, end |-> MaxDay, mar |-> QZero],
     [start |-> 0, end |-> MaxDay, mar |-> Q(-1, 1)],
     [start |-> 1, end |-> MaxDay, mar |-> QZero],
     [start |-> 0, end |-> 1, mar |-> QZero],
     [start |-> 1, end |-> 0, mar |-> QZero]}

ServiceCallInputs ==
    {[start |-> 1, end |-> 0, mar |-> QZero],
     [start |-> 0, end |-> 1, mar |-> QZero]}

NextMetrics ==
    \/ create_portfolio(<<"P">>)
    \/ \E x \in MetricsTxInputs :
          create_transaction(1, x.ticker, x.type, x.date, x.quantity, x.price, x.amount)
    \/ \E x \in MetricsPriceInputs : upsert_prices(x.ticker, x.rows)
    \/ \E mode \in ProviderModes : SetProvider(<<"A">>, mode)
    \/ \E pid \in PortfolioIds, x \in MetricsInputs :
          portfolio_metrics(pid, x.start, x.end, QZero, x.mar)
    \/ \E x \in ServiceCallInputs :
          call_compute_portfolio_metrics(1, x.start, x.end, QZero, x.mar)

SpecMetrics == InitMetrics /\ [][NextMetrics]_vars

\* the service function called over every request, and called again
NextRerun ==
    \/ create_portfolio(<<"P">>)
    \/ \E x \in MetricsTxInputs :
          create_transaction(1, x.ticker, x.type, x.date, x.quantity, x.price, x.amount)
    \/ \E x \in MetricsPriceInputs : upsert_prices(x.ticker, x.rows)
    \/ \E mode \in ProviderModes : SetProvider(<<"A">>, mode)
    \/ \E x \in MetricsInputs :
          call_compute_portfolio_metrics(1, x.start, x.end, QZero, x.mar)
    \/ rerun_compute_portfolio_metrics

SpecRerun == InitMetrics /\ [][NextRerun]_vars

-----------------------------------------------------------------------------
(* Metrics over ledgers whose tickers are held for a while, never traded or
   stored without a close, and over requests of a single day *)

SelectionTxInputs ==
    {[ticker |-> <<"A">>, type |-> "BUY", date |-> 0, quantity |-> D(2, 0),
      price |-> D(5, 0), amount |-> NoneDec],
     [ticker |-> <<"A">>, type |-> "SELL", date |-> 1, quantity |-> D(2, 0),
      price |-> D(5, 0), amount |-> NoneDec],
     [ticker |-> <<"B">>, type |-> "BUY", date |-> 0, quantity |-> D(2, 0),
      price |-> D(5, 0), amount |-> NoneDec],
     [ticker |-> <<"B">>, type |-> "DIVIDEND", date |-> 0, quantity |-> NoneDec,
      price |-> NoneDec, amount |-> D(3, 0)]}

\* A quoted every day, B with a bar that has no close, B with a single close
SelectionPriceInputs ==
    {[ticker |-> <<"A">>,
      rows |-> {[date |-> d, close |-> IF d = 0 THEN D(5, 0) ELSE D(10, 0)] : d \in Days}],
     [ticker |-> <<"B">>, rows |-> {[date |-> 1, close |-> NoneDec]}],
     [ticker |-> <<"B">>, rows |-> {[date |-> 2, close |-> D(10, 0)]}]}

SelectionInputs ==
    {[start |-> 0, end |-> MaxDay], [start |-> 1, end |-> MaxDay],
     [start |-> MaxDay - 1, end |-> MaxDay],
     [start |-> MaxDay, end |-> MaxDay], [start |-> 1, end |-> 1]}

NextSelection ==
    \/ create_portfolio(<<"P">>)
    \/ \E x \in SelectionTxInputs :
          create_transaction(1, x.ticker, x.type, x.date, x.quantity, x.price, x.amount)
    \/ \E x \in SelectionPriceInputs : upsert_prices(x.ticker, x.rows)
    \/ \E mode \in ProviderModes : SetProvider(<<"B">>, mode)
    \/ \E pid \in PortfolioIds, x \in SelectionInputs :
          portfolio_metrics(pid, x.start, x.end, QZero, QZero)

SpecSelection == InitMetrics /\ [][NextSelection]_vars

-----------------------------------------------------------------------------
(* Metrics and signals of one ticker, over what get_history may return *)

\* the longest of the histories over CloseValues
MaxCloses == 4

CloseValues == {D(1, 0), D(2, 0)}

RECURSIVE SeqsUpTo(_, _)
\* the sequences over S of length 1..n
SeqsUpTo(S, n) ==
    IF n = 0 THEN {}
    ELSE SeqsUpTo(S, n - 1) \cup [1..n -> S]

\* flat and mixed quotes, a ticker quoted at 0, quotes that only rise or only
\* fall, and quotes that cross twice
CloseSeriesInputs ==
    SeqsUpTo(CloseValues, MaxCloses)
    \cup {<<D(0, 0), D(0, 0)>>,
          <<D(1, 0), D(2, 0), D(3, 0), D(4, 0)>>,
          <<D(4, 0), D(3, 0), D(2, 0), D(1, 0)>>,
          <<D(2, 0), D(3, 0), D(1, 0), D(1, 0), D(4, 0), D(1, 0)>>}

PayloadInputs == {history_payload(closes, 0, Len(closes) - 1) : closes \in CloseSeriesInputs}

\* [window, fast, slow, rsi_period]
SignalInputs ==
    {<<3, 2, 3, 3>>, <<2, 2, 2, 3>>, <<2, 2, 3, 10>>, <<1, 1, 2, 1>>, <<2, 3, 2, 2>>}

NextSeries ==
    \/ \E payload \in PayloadInputs : metrics_basic(payload, QZero)
    \/ \E payload \in PayloadInputs, mar \in {QZero, Q(1, 2)} :
          metrics_advanced(payload, QZero, mar)
    \/ \E payload \in PayloadInputs, x \in SignalInputs :
          signals_tech(payload, x[1], x[2], x[3], x[4])

SpecSeries == Init /\ [][NextSeries]_vars

-----------------------------------------------------------------------------
(* Two requests for positions and metrics of one portfolio at a time, each
   suspended and resumed at its awaits; the ledger, the store and the
   provider change between requests only *)

ConcurrentTxInputs ==
    {[ticker |-> <<"A">>, type |-> "BUY", date |-> 0, quantity |-> D(2, 0),
      price |-> D(5, 0), amount |-> NoneDec],
     [ticker |-> <<"B">>, type |-> "BUY", date |-> 1, quantity |-> D(2, 0),
      price |-> D(5, 0), amount |-> NoneDec]}

ConcurrentPriceInputs ==
    {[ticker |-> <<"A">>,
      rows |-> {[date |-> d, close |-> IF d = 0 THEN D(5, 0) ELSE D(10, 0)] : d \in Days}],
     [ticker |-> <<"B">>, rows |-> {[date |-> 2, close |-> D(10, 0)]}]}

RequestSlots == {1, 2}

NextConcurrent ==
    \/ ~InFlight /\ create_portfolio(<<"P">>)
    \/ ~InFlight /\ \E x \in ConcurrentTxInputs :
          create_transaction(1, x.ticker, x.type, x.date, x.quantity, x.price, x.amount)
    \/ ~InFlight /\ \E x \in ConcurrentPriceInputs : upsert_prices(x.ticker, x.rows)
    \/ ~InFlight /\ \E mode \in {"ok", "down"} : SetProvider(<<"B">>, mode)
    \/ \E slot \in RequestSlots : start_compute_positions(slot, 1)
    \/ \E slot \in RequestSlots : await_aggregate_positions(slot)
    \/ \E slot \in RequestSlots : await_get_latest_prices_for(slot)
    \/ \E slot \in RequestSlots : await_get_last_close(slot)
    \/ \E slot \in RequestSlots, start \in {0, MaxDay + 1} :
          start_compute_portfolio_metrics(slot, 1, start, MaxDay, QZero, QZero)
    \/ \E slot \in RequestSlots : await_get_all_transactions(slot)
    \/ \E slot \in RequestSlots : await_load_price_history_for_tickers(slot)
    \/ \E slot \in RequestSlots : await_get_history(slot)
    \/ \E slot \in RequestSlots : return_answer(slot)

SpecConcurrent == InitMetrics /\ [][NextConcurrent]_vars

-----------------------------------------------------------------------------
(* Properties of positions *)

DecAbs(d) == IF d.m < 0 THEN DecNeg(d) ELSE d

\* the transactions of a ticker in a portfolio
TradesOf(pid, t) == {tx \in transactions : tx.portfolio_id = pid /\ tx.ticker = t}

\* sum of BUY quantities minus sum of SELL quantities
SignedQuantity(pid, t) ==
    LET buys == {tx \in TradesOf(pid, t) : tx.type = "BUY"}
        sells == {tx \in TradesOf(pid, t) : tx.type = "SELL"}
    IN  DecSub(DecSum([tx \in buys |-> tx.quantity], buys),
               DecSum([tx \in sells |-> tx.quantity], sells))

\* sum of quantity*price over BUYs minus the same sum over SELLs
SignedCost(pid, t) ==
    LET buys == {tx \in TradesOf(pid, t) : tx.type = "BUY"}
        sells == {tx \in TradesOf(pid, t) : tx.type = "SELL"}
    IN  DecSub(DecSum([tx \in buys |-> DecMul(tx.quantity, tx.price)], buys),
               DecSum([tx \in sells |-> DecMul(tx.quantity, tx.price)], sells))

\* the stored bars of a ticker, and the one with the greatest date
BarsOf(t) == {row \in prices : row.ticker = t}

LatestBar(t) == CHOOSE row \in BarsOf(t) : \A other \in BarsOf(t) : other.date <= row.date

PositionsReturned == resp.op = "portfolio_positions" /\ resp.err = ""

Returned == {resp.positions[i] : i \in 1..Len(resp.positions)}

\* C1: compute_positions returns a position for ticker t if and only if the
\* net signed quantity of t in the ledger (BUY minus SELL, DIVIDEND/FEE count
\* as 0) is not zero, and no returned position has quantity zero.
C1_PositionIffNetQuantity ==
    PositionsReturned =>
        /\ \A t \in Tickers \cup {tx.ticker : tx \in transactions} :
              (\E pos \in Returned : pos.ticker = t)
                  <=> ~DecEq(SignedQuantity(resp.portfolio_id, t), Zero)
        /\ \A pos \in Returned : ~DecEq(pos.quantity, Zero)

\* a ticker that was bought and sold back nets to zero and is not returned
C1_Witness ==
    /\ PositionsReturned
    /\ \E tx \in transactions :
          /\ tx.portfolio_id = resp.portfolio_id
          /\ tx.type = "BUY"
          /\ \A pos \in Returned : pos.ticker # tx.ticker

\* C2: for every returned position, avg_cost * quantity differs from the
\* ticker's signed cost by at most what rounding avg_cost to 4 decimals can
\* change: half of 0.0001 times the size of the quantity.
C2_AvgCostTimesQuantity ==
    PositionsReturned =>
        \A pos \in Returned :
            DecLe(DecMul(D(2, 0),
                         DecAbs(DecSub(DecMul(pos.avg_cost, pos.quantity),
                                       SignedCost(resp.portfolio_id, pos.ticker)))),
                  DecMul(D(1, _PRICE_QUANT), DecAbs(pos.quantity)))

\* a position of 3 bought for 20 in all: avg_cost 6.6667 is rounded
C2_Witness ==
    /\ PositionsReturned
    /\ \E pos \in Returned :
          /\ pos.quantity = D(3, 0)
          /\ pos.avg_cost = D(66667, 4)
          /\ SignedCost(resp.portfolio_id, pos.ticker) = D(20, 0)

\* the ledger of the scenario: a single BUY of 10 at 100, latest close 110
C3_Scenario ==
    /\ \E tx \in transactions :
          /\ {x \in transactions : x.portfolio_id = resp.portfolio_id} = {tx}
          /\ tx.type = "BUY" /\ tx.ticker = <<"A">>
          /\ tx.quantity = D(10, 0) /\ tx.price = D(100, 0)
    /\ BarsOf(<<"A">>) # {}
    /\ LatestBar(<<"A">>).close = D(110, 0)

C3_ScenarioResult ==
    resp.positions = <<[ticker |-> <<"A">>, quantity |-> D(10, 0), avg_cost |-> D(100, 0),
                        market_price |-> D(110, 0), market_value |-> D(1100, 0),
                        unrealized_pnl |-> D(100, 0)]>>

\* C3 as stated: for every returned position whose ticker has a stored bar,
\* market_price is the close of the bar with the greatest date, market_value
\* is market_price * quantity and unrealized_pnl is (market_price - avg_cost)
\* * quantity; the scenario gives 10, 100, 1100, 100.
C3_AsStated ==
    PositionsReturned =>
        /\ \A pos \in Returned :
              BarsOf(pos.ticker) # {} =>
                  /\ pos.market_price = LatestBar(pos.ticker).close
                  /\ DecEq(pos.market_value, DecMul(pos.market_price, pos.quantity))
                  /\ DecEq(pos.unrealized_pnl,
                           DecMul(DecSub(pos.market_price, pos.avg_cost), pos.quantity))
        /\ C3_Scenario => C3_ScenarioResult

\* C3 amended: for every returned position whose ticker's stored bar with the
\* greatest date has a close c that is not null, market_price is c rounded
\* half-up to 4 decimals, market_value is c * quantity rounded half-up to 2
\* decimals, and unrealized_pnl is a 2-decimal amount within half a cent of
\* c * quantity - signed cost; the scenario gives 10, 100, 1100, 100.
C3_LatestCloseValuation ==
    PositionsReturned =>
        /\ \A pos \in Returned :
              (BarsOf(pos.ticker) # {} /\ ~LatestBar(pos.ticker).close.nul) =>
                  LET c == LatestBar(pos.ticker).close
                  IN  /\ pos.market_price = quantize(c, 4, "ROUND_HALF_UP")
                      /\ pos.market_value
                            = quantize(DecMul(c, pos.quantity), 2, "ROUND_HALF_UP")
                      /\ pos.unrealized_pnl.p <= 2
                      /\ DecLe(DecMul(D(2, 0),
                                      DecAbs(DecSub(pos.unrealized_pnl,
                                                    DecSub(DecMul(c, pos.quantity),
                                                           SignedCost(resp.portfolio_id, pos.ticker))))),
                               D(1, 2))
        /\ C3_Scenario => C3_ScenarioResult

\* two bars are stored for the ticker, the later one closes at 6.675, and the
\* position of 3 bought for 20 is valued at 20.03 with a gain of 0.02
C3_Witness ==
    /\ PositionsReturned
    /\ \E pos \in Returned :
          /\ Cardinality(BarsOf(pos.ticker)) = 2
          /\ LatestBar(pos.ticker).close = D(6675, 3)
          /\ pos.quantity = D(3, 0)
          /\ pos.market_value = D(2003, 2)
          /\ pos.unrealized_pnl = D(2, 2)

\* a ticker without a stored close: no bar, or a latest bar without close
NoStoredClose(t) == BarsOf(t) = {} \/ LatestBar(t).close.nul

\* the position of a ticker from its own rows, its own latest bar and, when
\* it has no stored close, the provider's answer for it alone
PositionOnItsOwn(pid, t) ==
    PositionOut([ticker |-> t, quantity |-> SignedQuantity(pid, t), cost |-> SignedCost(pid, t)],
                IF BarsOf(t) = {} THEN {} ELSE {LatestBar(t)},
                IF NoStoredClose(t) /\ provider[t] = "ok"
                THEN [u \in {t} |-> _safe_float(ProviderClose(t, today))]
                ELSE <<>>)

\* C14: whatever the provider does, every ticker with a nonzero net quantity
\* is returned; a ticker without a stored close whose provider lookup fails
\* has market_price None, market_value 0 and unrealized_pnl 0; and every
\* position is the one its ticker has on its own, so the failure for one
\* ticker leaves the others as they are without it.
C14_ProviderFailureIsIsolated ==
    PositionsReturned =>
        /\ \A t \in Tickers :
              ~DecEq(SignedQuantity(resp.portfolio_id, t), Zero)
                  => \E pos \in Returned : pos.ticker = t
        /\ \A pos \in Returned :
              /\ (NoStoredClose(pos.ticker) /\ provider[pos.ticker] # "ok")
                    => /\ pos.market_price.nul
                       /\ DecEq(pos.market_value, Zero)
                       /\ DecEq(pos.unrealized_pnl, Zero)
              /\ pos = PositionOnItsOwn(resp.portfolio_id, pos.ticker)

\* the lookup failed for one ticker and answered for another
C14_Witness ==
    /\ PositionsReturned
    /\ \E failing, other \in Returned :
          /\ NoStoredClose(failing.ticker)
          /\ provider[failing.ticker] # "ok"
          /\ failing.market_price.nul
          /\ NoStoredClose(other.ticker)
          /\ provider[other.ticker] = "ok"
          /\ ~other.market_price.nul

-----------------------------------------------------------------------------
(* Properties of metrics *)

MetricsAnswered == resp.op \in {"portfolio_metrics", "compute_portfolio_metrics"}

MetricsReturned == MetricsAnswered /\ resp.err = ""

\* the grid of a metrics computation was built
GridBuilt == MetricsAnswered /\ resp.trace.date_index # <<>>

\* the ledger rows of the portfolio asked about, dated on or before a day
LedgerUpTo(day) ==
    {tx \in transactions : tx.portfolio_id = resp.portfolio_id /\ tx.date <= day}

\* sum of BUY quantities minus sum of SELL quantities of a ticker up to a day
NetQuantityUpTo(t, day) ==
    LET buys == {tx \in LedgerUpTo(day) : tx.ticker = t /\ tx.type = "BUY"}
        sells == {tx \in LedgerUpTo(day) : tx.ticker = t /\ tx.type = "SELL"}
    IN  DecSub(DecSum([tx \in buys |-> tx.quantity], buys),
               DecSum([tx \in sells |-> tx.quantity], sells))

\* C4: the grid runs day by day from min(first transaction date, start)
\* through end, and the cumulative quantity of every ticker on every day of it
\* is the sum of BUY minus the sum of SELL quantities of the ticker's
\* transactions dated on or before that day; the grid has no day after end, so
\* no transaction dated after end is included.
C4_GridIsNetQuantity ==
    GridBuilt =>
        LET grid == resp.trace
            days == grid.date_index
        IN  /\ \A tx \in LedgerUpTo(resp.end) : days[1] <= tx.date
            /\ days[1] <= resp.start
            /\ \/ days[1] = resp.start
               \/ \E tx \in LedgerUpTo(resp.end) : days[1] = tx.date
            /\ \A i \in 1..Len(days) : days[i] = days[1] + i - 1
            /\ days[Len(days)] = resp.end
            /\ DOMAIN grid.positions = {tx.ticker : tx \in LedgerUpTo(resp.end)}
            /\ \A t \in DOMAIN grid.positions :
                  /\ Len(grid.positions[t]) = Len(days)
                  /\ \A i \in 1..Len(days) :
                        grid.positions[t][i] = float(NetQuantityUpTo(t, days[i]))

\* a grid that ends before a transaction of the ledger, holding a position
C4_Witness ==
    /\ GridBuilt
    /\ \E tx \in transactions :
          /\ tx.portfolio_id = resp.portfolio_id
          /\ tx.type = "BUY"
          /\ tx.date > resp.end
    /\ \E t \in DOMAIN resp.trace.positions :
          resp.trace.positions[t][Len(resp.trace.date_index)] = Q(-1, 1)

\* C5 as stated: max_drawdown <= 0, and it is 0 if and only if no day's value
\* is below the value of a day before it.
C5_AsStated ==
    MetricsReturned =>
        LET values == resp.trace.values
        IN  /\ QLe(resp.result.max_drawdown, QZero)
            /\ resp.result.max_drawdown = QZero
                  <=> \A i \in 1..Len(values) : \A j \in 1..i : QLe(values[j], values[i])

\* C5 amended: max_drawdown <= 0, and it is 0 if and only if no day's value
\* is below a strictly positive value of a day before it (a fall below a
\* running peak that is zero or negative is not counted).
C5_DrawdownZeroIffNoFallFromPositivePeak ==
    MetricsReturned =>
        LET values == resp.trace.values
        IN  /\ QLe(resp.result.max_drawdown, QZero)
            /\ resp.result.max_drawdown = QZero
                  <=> \A i \in 1..Len(values) : \A j \in 1..i :
                          QLt(QZero, values[j]) => QLe(values[j], values[i])

\* a short position loses value before the portfolio turns positive, and
\* max_drawdown is 0
C5_Witness ==
    /\ MetricsReturned
    /\ resp.result.max_drawdown = QZero
    /\ QLt(resp.trace.values[2], resp.trace.values[1])

\* the daily MAR of the request
DailyMar == IF resp.mar = Q(-1, 1) THEN Q(-1, 1) ELSE QZero

\* the scenario: the ledger is a single BUY, the prices are the stored ones
\* and the stored closes of its ticker are all the same
C6_Scenario ==
    \E tx \in transactions :
        /\ {x \in transactions : x.portfolio_id = resp.portfolio_id} = {tx}
        /\ tx.type = "BUY"
        /\ \A i \in 1..Len(resp.io) : resp.io[i].fn # "get_history"
        /\ \E bar \in BarsOf(tx.ticker) : ~bar.close.nul
        /\ \A b1, b2 \in BarsOf(tx.ticker) :
              (~b1.close.nul /\ ~b2.close.nul) => b1.close = b2.close

\* C6: in every result sharpe is None when the returns have no spread (they
\* are all equal), sortino is None when no return is below the daily MAR, and
\* calmar is None when max_drawdown is 0; a single BUY with a flat price
\* series gives ann_volatility None, sharpe None and max_drawdown 0.
C6_NoneOnZeroDenominator ==
    MetricsReturned =>
        LET returns == resp.trace.returns
            result == resp.result
        IN  /\ (\A i, j \in 1..Len(returns) : returns[i] = returns[j]) => result.sharpe.nul
            /\ (\A i \in 1..Len(returns) : ~QLt(returns[i], DailyMar)) => result.sortino.nul
            /\ result.max_drawdown = QZero => result.calmar.nul
            /\ C6_Scenario =>
                  /\ result.ann_volatility.nul
                  /\ result.sharpe.nul
                  /\ result.max_drawdown = QZero

\* the scenario over the whole calendar: three daily returns, all of them 0
C6_Witness ==
    /\ MetricsReturned
    /\ C6_Scenario
    /\ Len(resp.trace.returns) = MaxDay
    /\ resp.result.sharpe.nul

\* the reads a metrics request may issue
StoreReads == {"get_all_transactions", "load_price_history_for_tickers", "get_history"}

\* C7: a metrics request with start > end ends in a 400 error and has issued
\* no read of the ledger, of the price store or of the provider.
C7_StartAfterEndReadsNothing ==
    (MetricsAnswered /\ resp.start > resp.end) =>
        /\ resp.err = "HTTPException"
        /\ resp.status = 400
        /\ \A i \in 1..Len(resp.io) : resp.io[i].fn \notin StoreReads

\* the service function is called with start > end on a ledger that has rows
C7_Witness ==
    /\ resp.op = "compute_portfolio_metrics"
    /\ resp.start > resp.end
    /\ LedgerUpTo(resp.end) # {}

\* the first day of the grid of the request answered
GridStart ==
    CHOOSE d \in {tx.date : tx \in LedgerUpTo(resp.end)} \cup {resp.start} :
        \A e \in {tx.date : tx \in LedgerUpTo(resp.end)} \cup {resp.start} : d <= e

LedgerTickers == {tx.ticker : tx \in LedgerUpTo(resp.end)}

\* the stored bars of a ticker within the grid
StoredInGrid(t) ==
    {row \in prices : row.ticker = t /\ GridStart <= row.date /\ row.date <= resp.end}

\* the request got as far as gathering prices
ReachedPrices ==
    /\ MetricsAnswered
    /\ resp.start <= resp.end
    /\ resp.op = "portfolio_metrics" => \E p \in portfolios : p.id = resp.portfolio_id
    /\ LedgerUpTo(resp.end) # {}

\* every field of a PortfolioMetricsResponse is there
CompleteResult(result) ==
    /\ ~result.nul
    /\ DOMAIN result = {"nul", "portfolio_id", "start", "end", "n_days", "tickers",
                        "ann_return", "ann_volatility", "sharpe", "sortino", "calmar",
                        "max_drawdown", "downside_volatility", "rf", "mar"}
    /\ result.n_days = Len(resp.trace.returns)
    /\ result.n_days >= 1

\* C15: a metrics request either ends in an error and returns no result at
\* all, or returns a complete result; when the provider fails for a ticker of
\* the ledger that has no stored bars in the grid the request ends in an
\* error, and the failed fetch is the last thing the request did.
C15_FailureAbortsMetrics ==
    MetricsAnswered =>
        /\ resp.err # "" => resp.result = None
        /\ resp.err = "" => CompleteResult(resp.result)
        /\ (ReachedPrices /\ \E t \in LedgerTickers :
                                 StoredInGrid(t) = {} /\ provider[t] # "ok")
              => /\ resp.err = "HTTPException"
                 /\ resp.status = 400
                 /\ resp.io[Len(resp.io)].fn = "get_history"
                 /\ provider[resp.io[Len(resp.io)].arg] # "ok"
                 /\ \A i \in 1..Len(resp.io) :
                       (resp.io[i].fn = "get_history" /\ provider[resp.io[i].arg] # "ok")
                           => i = Len(resp.io)

\* the provider failed for one ticker while another ticker of the ledger has
\* stored bars in the grid
C15_Witness ==
    /\ ReachedPrices
    /\ resp.err = "HTTPException"
    /\ resp.result = None
    /\ \E t, u \in LedgerTickers :
          /\ StoredInGrid(t) = {}
          /\ provider[t] # "ok"
          /\ \E row \in StoredInGrid(u) : ~row.close.nul

\* the fetches of the request answered that went to a provider that is down
FailedFetches ==
    {i \in 1..Len(resp.io) : resp.io[i].fn = "get_history" /\ provider[resp.io[i].arg] = "down"}

\* C16: when the provider fails with a network failure during a metrics
\* request, the error the caller gets is the upstream failure (502 bad
\* gateway or 503 service unavailable), not the 400 of an invalid input or of
\* insufficient data, and the provider is not called again for that ticker.
C16_UpstreamFailureSurfaced ==
    (MetricsAnswered /\ FailedFetches # {}) =>
        /\ resp.err = "HTTPException"
        /\ resp.status \in {502, 503}
        /\ \A i \in FailedFetches : \A j \in 1..Len(resp.io) :
              (resp.io[j].fn = "get_history" /\ resp.io[j].arg = resp.io[i].arg) => j = i

\* the provider fetches of the request answered
Fetches == {i \in 1..Len(resp.io) : resp.io[i].fn = "get_history"}

\* C17: every history fetch of a metrics request comes after the lookup of
\* the price store, is for a ticker of the ledger for which the store has no
\* row in the grid, and is the only fetch for that ticker; a ticker with a
\* stored row in the grid is never fetched.
C17_FetchOnlyMissingOnce ==
    MetricsAnswered =>
        /\ \A i \in Fetches :
              /\ \E j \in 1..(i - 1) : resp.io[j].fn = "load_price_history_for_tickers"
              /\ resp.io[i].arg \in LedgerTickers
              /\ StoredInGrid(resp.io[i].arg) = {}
              /\ \A k \in Fetches : resp.io[k].arg = resp.io[i].arg => k = i
        /\ \A t \in LedgerTickers :
              StoredInGrid(t) # {} => \A i \in Fetches : resp.io[i].arg # t

\* one ticker of the ledger was fetched, another has stored rows and was not
C17_Witness ==
    /\ MetricsAnswered
    /\ Fetches # {}
    /\ \E u \in LedgerTickers :
          /\ StoredInGrid(u) # {}
          /\ \A i \in Fetches : resp.io[i].arg # u

\* the BUY and SELL rows of the ledger up to end, as the ledger returns them
TradesUpTo(day) == order_by_date({tx \in LedgerUpTo(day) : tx.type \in {"BUY", "SELL"}})

\* the answer of the service function had the ledger held its BUY and SELL
\* rows only
WithoutDividendsAndFees ==
    metrics_of_transactions(TradesUpTo(resp.end), resp.portfolio_id,
                            resp.start, resp.end, resp.rf, resp.mar)

\* C18: the outcome of a metrics request is the one the ledger without its
\* DIVIDEND and FEE rows gives (the same error status, or the same result),
\* and no ticker that the ledger names only in DIVIDEND or FEE rows is
\* fetched from the provider.
C18_DividendsAndFeesDoNotMatter ==
    ReachedPrices =>
        /\ resp.err = WithoutDividendsAndFees.err
        /\ resp.status = WithoutDividendsAndFees.status
        /\ resp.result = WithoutDividendsAndFees.result
        /\ \A i \in Fetches :
              \E tx \in LedgerUpTo(resp.end) :
                  tx.ticker = resp.io[i].arg /\ tx.type \in {"BUY", "SELL"}

\* the price points of a ticker in the grid of the request answered: its
\* stored bars with a close, or without stored bars what the provider returned
PricePoints(t) ==
    IF StoredInGrid(t) # {}
    THEN {[date |-> row.date, close |-> float(row.close)] :
             row \in {x \in StoredInGrid(t) : ~x.close.nul}}
    ELSE {[date |-> item.date, close |-> float(item.close)] :
             item \in Range(get_history(t, GridStart, resp.end).data)}

\* what a ticker adds to the value of a day: its quantity times the close of
\* its latest price point on or before the day, 0 before its first one
Contribution(t, day) ==
    LET known == {pt \in PricePoints(t) : pt.date <= day}
        latest == CHOOSE pt \in known : \A other \in known : other.date <= pt.date
    IN  IF known = {} THEN QZero
        ELSE QMul(float(NetQuantityUpTo(t, day)), latest.close)

\* the tickers with a price point in the grid and a position on some day
ActiveTickers ==
    {t \in LedgerTickers :
        /\ PricePoints(t) # {}
        /\ \E d \in GridStart..resp.end : ~DecEq(NetQuantityUpTo(t, d), Zero)}

\* the valuation series of the request answered was computed
Valued == MetricsAnswered /\ resp.trace.values # <<>>

\* C19: the value of every grid day is the sum over the active tickers of
\* the day's quantity times the close of the ticker's latest price point
\* dated on or before the day; a ticker adds 0 on the days before its first
\* price point, and no price is taken from a later day.
C19_ValueUsesLatestCloseSoFar ==
    Valued =>
        LET days == resp.trace.date_index
            active == resp.trace.tickers
        IN  /\ Range(active) = ActiveTickers
            /\ Len(resp.trace.values) = Len(days)
            /\ \A i \in 1..Len(days) :
                  resp.trace.values[i] =
                      QSum([k \in 1..Len(active) |-> Contribution(active[k], days[i])])

\* a ticker held from the first day has its first price point later, and no
\* price point on the last day: it adds 0 at first and its last close at the end
C19_Witness ==
    /\ Valued
    /\ \E t \in ActiveTickers :
          /\ ~DecEq(NetQuantityUpTo(t, GridStart), Zero)
          /\ \A pt \in PricePoints(t) : GridStart < pt.date /\ pt.date < resp.end
          /\ resp.trace.values[1] = QZero
          /\ resp.trace.values[Len(resp.trace.values)] # QZero

\* the grid days d of the request answered, as positions in the grid, with
\* d >= start, a day after them in the grid and a value above 0
QualifyingDays ==
    {i \in 1..(Len(resp.trace.values) - 1) :
        /\ resp.trace.date_index[i] >= resp.start
        /\ QLt(QZero, resp.trace.values[i])}

\* the k-th qualifying day in date order
QualifyingDay(k) ==
    CHOOSE i \in QualifyingDays : Cardinality({j \in QualifyingDays : j <= i}) = k

\* C20: the return series holds, in date order, exactly one return
\* value[d+1] / value[d] - 1 for each pair of consecutive grid days with
\* d >= start and value[d] > 0; the other pairs are left out without error,
\* and when no pair qualifies the request fails with the 400 of insufficient
\* data and returns nothing.
C20_ReturnsOfQualifyingPairs ==
    Valued =>
        LET values == resp.trace.values
            returns == resp.trace.returns
        IN  /\ QualifyingDays = {}
                  => /\ resp.err = "HTTPException"
                     /\ resp.status = 400
                     /\ resp.detail \in {"Portfolio value is zero throughout the selected period",
                                         "Not enough observations to compute metrics"}
                     /\ resp.result = None
            /\ QualifyingDays # {}
                  => /\ resp.err # "HTTPException"
                     /\ Len(returns) = Cardinality(QualifyingDays)
                     /\ \A k \in 1..Len(returns) :
                           returns[k] = QSub(QDiv(values[QualifyingDay(k) + 1],
                                                  values[QualifyingDay(k)]), QOne)
                     /\ resp.err = "" => resp.result.n_days = Cardinality(QualifyingDays)

\* returns were computed while one pair was left out for a prior value that
\* is not positive and another for a prior day before start
C20_Witness ==
    /\ Valued
    /\ QualifyingDays # {}
    /\ \E i \in 1..(Len(resp.trace.values) - 1) :
          /\ resp.trace.date_index[i] >= resp.start
          /\ QLe(resp.trace.values[i], QZero)
    /\ \E i \in 1..(Len(resp.trace.values) - 1) :
          resp.trace.date_index[i] < resp.start

\* C21: the tickers of a result are the ledger tickers that have a price
\* point in the grid and a quantity that is not zero on some grid day, each
\* once and in ascending order; a request that got as far as the prices fails
\* with a 400 and returns nothing when no ledger ticker has a price point, and
\* when no ticker with a price point is ever held.
C21_TickersAreTheActiveOnes ==
    /\ MetricsReturned =>
          LET tickers == resp.result.tickers
          IN  /\ Range(tickers) = ActiveTickers
              /\ \A i, j \in 1..Len(tickers) : i < j => str_lt(tickers[i], tickers[j])
    /\ (ReachedPrices /\ (\/ \A t \in LedgerTickers : PricePoints(t) = {}
                           \/ ActiveTickers = {}))
          => /\ resp.err = "HTTPException"
             /\ resp.status = 400
             /\ resp.result = None

\* a result that leaves out a ticker that is held but has no price point
C21_Witness ==
    /\ MetricsReturned
    /\ \E t \in LedgerTickers :
          /\ ~DecEq(NetQuantityUpTo(t, resp.end), Zero)
          /\ PricePoints(t) = {}
          /\ t \notin Range(resp.result.tickers)
    /\ resp.result.tickers # <<>>

\* the grid days from the requested start on, as positions in the grid
DaysFromStart == {i \in 1..Len(resp.trace.date_index) : resp.trace.date_index[i] >= resp.start}

\* the error of the check of the value series
ZeroThroughout ==
    /\ resp.err = "HTTPException"
    /\ resp.detail = "Portfolio value is zero throughout the selected period"

\* C22: a request that reached valuation ends in the error of the value
\* check, a 400 that says the value is zero throughout the period (cannot
\* compute; not the 404 of a portfolio that is not found) and returns nothing,
\* if and only if the value is <= 0 on every grid day from the requested start
\* through end; when the value is above 0 on one of these days the request
\* goes on to the returns (where it may still lack observations).
C22_ZeroValueThroughoutFails ==
    Valued =>
        /\ ZeroThroughout <=> \A i \in DaysFromStart : QLe(resp.trace.values[i], QZero)
        /\ ZeroThroughout => (resp.status = 400 /\ resp.result = None)
        /\ ~ZeroThroughout =>
              \/ resp.err = ""
              \/ resp.detail = "Not enough observations to compute metrics"

\* the value is above 0 on a grid day before the requested start and 0 from
\* the start on: the request fails
C22_Witness ==
    /\ Valued
    /\ ZeroThroughout
    /\ \E i \in 1..Len(resp.trace.values) :
          /\ i \notin DaysFromStart
          /\ QLt(QZero, resp.trace.values[i])

\* C28: every result has 1 <= n_days <= end - start (in days), and a request
\* with start = end never returns a result, whatever the ledger, the stored
\* prices and the provider are.
C28_NDaysWithinRequest ==
    /\ MetricsReturned =>
          /\ 1 <= resp.result.n_days
          /\ resp.result.n_days <= resp.end - resp.start
    /\ (MetricsAnswered /\ resp.start = resp.end) =>
          /\ resp.err # ""
          /\ resp.result = None

\* a request of a single day on a grid of several days, with a value above 0
\* on every day of the grid: it has no pair of days to take a return from
C28_Witness ==
    /\ Valued
    /\ resp.start = resp.end
    /\ Len(resp.trace.values) > 1
    /\ \A i \in 1..Len(resp.trace.values) : QLt(QZero, resp.trace.values[i])
    /\ resp.detail = "Not enough observations to compute metrics"

-----------------------------------------------------------------------------
(* Properties of the metrics and signals of one ticker *)

CalculationReturned(op) == resp.op = op /\ resp.err = ""

\* the closes of the history the calculation answered was made from
Closes == [i \in 1..resp.payload.count |-> resp.payload.data[i].close]

\* the daily returns of the history: close over the close before, minus 1
DailyReturn(i) == QSub(QDiv(Closes[i + 1], Closes[i]), QOne)

\* the history yields no valid return: every close is 0
NoValidReturn == \A i \in 1..Len(Closes) : Closes[i] = QZero

\* a return that is not below the daily MAR of the request
NotBelowMar(r) ==
    IF resp.args.mar = QZero THEN QLe(QZero, r) ELSE QLe(Q(1611, 1000000), r)

\* C23: advanced_metrics returns downside_volatility None and sortino None
\* when no daily return is below the daily MAR, and calmar None when
\* max_drawdown is 0 (a strictly rising series with mar = 0.5 gives all three).
C23_NoneOnEmptyDownside ==
    CalculationReturned("metrics_advanced") =>
        /\ (\A i \in 1..(Len(Closes) - 1) : NotBelowMar(DailyReturn(i)))
              => /\ resp.result.downside_volatility.nul
                 /\ resp.result.sortino.nul
        /\ resp.result.max_drawdown = QZero => resp.result.calmar.nul

\* C24: basic_metrics and advanced_metrics end in an HTTP error with status
\* 404 when the history has fewer than 2 closes or yields no valid return,
\* and tech_signals ends in an HTTP error with status 404 when the history has
\* fewer than max(window, slow) + 1 observations.
C24_ShortHistoryIsNotFound ==
    /\ (/\ resp.op \in {"metrics_basic", "metrics_advanced"}
        /\ (resp.payload.count < 2 \/ NoValidReturn))
          => (resp.err = "HTTPException" /\ resp.status = 404)
    /\ (/\ resp.op = "signals_tech"
        /\ resp.payload.count < Max2(resp.args.window, resp.args.slow) + 1)
          => (resp.err = "HTTPException" /\ resp.status = 404)

\* C25: the RSI of a tech_signals result is None when the history has fewer
\* than rsi_period + 1 closes and when all its closes are equal, and an RSI
\* that is reported is a number from 0 to 100.
C25_RsiNoneOrWithinRange ==
    CalculationReturned("signals_tech") =>
        /\ Len(Closes) < resp.args.rsi_period + 1 => resp.result.rsi = None
        /\ (\A i, j \in 1..Len(Closes) : Closes[i] = Closes[j]) => resp.result.rsi = None
        /\ resp.result.rsi # None =>
              /\ ~resp.result.rsi.nan
              /\ QLe(QZero, resp.result.rsi)
              /\ QLe(resp.result.rsi, Q(100, 1))

\* a history long enough for the period, with rises and falls: an RSI strictly
\* between 0 and 100 is reported
C25_Witness ==
    /\ CalculationReturned("signals_tech")
    /\ Len(Closes) >= resp.args.rsi_period + 1
    /\ resp.result.rsi # None
    /\ QLt(QZero, resp.result.rsi)
    /\ QLt(resp.result.rsi, Q(100, 1))

\* the sum of the last k closes at row i
SumOfLast(k, i) == QSum([j \in 1..k |-> Closes[i - k + j]])

\* the fast average is above the slow one at row i: both have a value, and
\* the sum of the last fast closes over fast exceeds that of the last slow
\* closes over slow
FastAboveSlow(i) ==
    /\ i >= resp.args.fast
    /\ i >= resp.args.slow
    /\ QLt(QMul(Q(resp.args.fast, 1), SumOfLast(resp.args.slow, i)),
           QMul(Q(resp.args.slow, 1), SumOfLast(resp.args.fast, i)))

\* the rows at which the flag differs from the row before
Crosses == {i \in 2..Len(Closes) : FastAboveSlow(i) # FastAboveSlow(i - 1)}

LastCross == CHOOSE i \in Crosses : \A j \in Crosses : j <= i

\* C30: in every tech_signals result last_cross_type and last_cross_date are
\* None exactly when the flag fast-SMA > slow-SMA never changes over the
\* series, and then cross_now is false; otherwise last_cross_date is the date
\* of the last change and last_cross_type is golden if that change was to
\* fast > slow and death if not; so cross_now is true if and only if
\* last_cross_type is golden.
C30_CrossNowMatchesLastCross ==
    CalculationReturned("signals_tech") =>
        LET result == resp.result
        IN  /\ result.last_cross_type = None <=> Crosses = {}
            /\ result.last_cross_date = None <=> Crosses = {}
            /\ Crosses = {} => ~result.cross_now
            /\ Crosses # {} =>
                  /\ result.last_cross_date.date = resp.payload.data[LastCross].date
                  /\ result.last_cross_type.type =
                        IF FastAboveSlow(LastCross) THEN "golden" ELSE "death"
            /\ result.cross_now <=>
                  (result.last_cross_type # None /\ result.last_cross_type.type = "golden")

\* the averages crossed upwards and later downwards: the last cross is a
\* death cross and cross_now is false
C30_Witness ==
    /\ CalculationReturned("signals_tech")
    /\ Cardinality(Crosses) >= 2
    /\ resp.result.last_cross_type # None
    /\ resp.result.last_cross_type.type = "death"
    /\ ~resp.result.cross_now

-----------------------------------------------------------------------------
(* Properties of portfolios *)

\* C11: creating a portfolio whose stripped name is the name of a stored
\* portfolio fails with PortfolioAlreadyExistsError (HTTP 409 at the route)
\* and adds no portfolio; an empty name fails with another error (ValueError,
\* HTTP 422 at the route); no two stored portfolios share a name.
C11_DuplicateNameIsConflict ==
    /\ [](\A p, q \in portfolios : p.name = q.name => p = q)
    /\ [][\A name \in NameInputs :
            /\ (create_portfolio(name) /\ \E p \in portfolios : p.name = strip(name))
                  => /\ resp'.err = "PortfolioAlreadyExistsError"
                     /\ portfolios' = portfolios
            /\ (create_portfolio(name) /\ strip(name) = <<>>)
                  => /\ resp'.err = "ValueError"
                     /\ portfolios' = portfolios
            /\ (post_portfolios(name) /\ \E p \in portfolios : p.name = strip(name))
                  => /\ resp'.status = 409
                     /\ portfolios' = portfolios
            /\ (post_portfolios(name) /\ strip(name) = <<>>)
                  => /\ resp'.status = 422
                     /\ portfolios' = portfolios]_vars

\* the conflict was answered while another name could still be stored
C11_Witness ==
    /\ resp.op \in {"create_portfolio", "post_portfolios"}
    /\ resp.err \in {"PortfolioAlreadyExistsError", "HTTPException"}
    /\ Cardinality(portfolios) = 1
    /\ next_portfolio_id <= MaxPortfolioIds

-----------------------------------------------------------------------------
(* Properties of the price store *)

\* the stored row an upserted dict becomes
StoredBar(ticker, r) ==
    [ticker |-> upper(ticker), date |-> r.date,
     open |-> price_to_decimal(row_get(r, "open")),
     high |-> price_to_decimal(row_get(r, "high")),
     low |-> price_to_decimal(row_get(r, "low")),
     close |-> price_to_decimal(row_get(r, "close")),
     volume |-> volume_to_int(row_get(r, "volume"))]

SameBar(p, q) == p.ticker = q.ticker /\ p.date = q.date

\* C12: the store never holds two rows of one (ticker, date); an upsert that
\* is carried out leaves, for every bar it names, the row of the uppercased
\* ticker and the date with the open, high, low, close and volume of this
\* upsert (prices as stored, to 6 decimals), keeps every other row as it was
\* and adds nothing else; nothing but an upsert changes the store.
C12_UpsertKeepsLatestBar ==
    /\ [](\A p, q \in prices : SameBar(p, q) => p = q)
    /\ [][\A x \in PriceBarInputs :
            (upsert_prices(x.ticker, x.rows) /\ resp'.err = "") =>
                LET upserted == {StoredBar(x.ticker, r) : r \in x.rows}
                IN  /\ upserted \subseteq prices'
                    /\ \A new \in prices' : new \in upserted \/ new \in prices
                    /\ \A old \in prices :
                          old \in prices' \/ \E new \in upserted : SameBar(old, new)]_vars
    /\ [][prices' # prices => (resp'.op = "upsert_prices" /\ resp'.err = "")]_vars

\* the bar of day 0 was upserted together with the bar of day 1 and then
\* again with other values: its row holds the values of the second upsert
C12_Witness ==
    /\ resp.op = "upsert_prices"
    /\ resp.err = ""
    /\ resp.count = 1
    /\ prices = {StoredBar(<<"A">>, Bar(0, D(5, 0), D(7, 0), D(4, 0), D(6, 0), NoneDec)),
                 StoredBar(<<"A">>, Bar(1, D(5, 0), D(5, 0), D(5, 0), D(6675, 3), D(3, 0)))}

-----------------------------------------------------------------------------
(* Properties of the ledger *)

\* what C8 calls a malformed payload, read off the payload as it is passed
MalformedPayload(x) ==
    LET t == _resolve_type(x.type).value
    IN  \/ t \in {"BUY", "SELL"} /\ (x.quantity.nul \/ x.quantity.m <= 0)
        \/ t \in {"BUY", "SELL"} /\ (x.price.nul \/ x.price.m < 0)
        \/ t \in {"DIVIDEND", "FEE"} /\ (x.amount.nul \/ x.amount.m < 0)
        \/ x.date > today
        \/ x.ticker = <<>>

\* C8: every create_transaction call with a malformed payload (BUY/SELL with
\* null or non-positive quantity, or null or negative price; DIVIDEND/FEE with
\* null or negative amount; a date after today; an empty ticker) ends in
\* InvalidTransactionError and leaves the ledger as it was.
C8_MalformedIsRejected ==
    [][\A pid \in PortfolioIds, x \in LedgerTxInputs :
          (MalformedPayload(x)
           /\ create_transaction(pid, x.ticker, x.type, x.date, x.quantity, x.price, x.amount))
          => (resp'.err = "InvalidTransactionError" /\ transactions' = transactions)]_vars

\* C9: every stored transaction has a non-empty uppercase ticker, a date that
\* is not after today (so it was not in the future when created: the clock only
\* moves forward), and for BUY/SELL a quantity > 0 and a price >= 0, for
\* DIVIDEND/FEE an amount >= 0.
C9_StoredTransactionsValid ==
    \A tx \in transactions :
        /\ tx.ticker # <<>>
        /\ tx.ticker = upper(tx.ticker)
        /\ tx.date <= today
        /\ tx.type \in TransactionType
        /\ tx.type \in {"BUY", "SELL"} =>
              /\ ~tx.quantity.nul /\ tx.quantity.m > 0
              /\ ~tx.price.nul /\ tx.price.m >= 0
        /\ tx.type \in {"DIVIDEND", "FEE"} =>
              ~tx.amount.nul /\ tx.amount.m >= 0

\* a trade and a credit are stored, one of them dated before today
C9_Witness ==
    \E t1, t2 \in transactions :
        /\ t1.type \in {"BUY", "SELL"}
        /\ t2.type \in {"DIVIDEND", "FEE"}
        /\ t1.date < today

\* C10: every stored transaction belongs to exactly one stored portfolio, so
\* the transactions of a deleted portfolio are gone with it.
C10_TransactionsOwned ==
    \A tx \in transactions :
        Cardinality({p \in portfolios : p.id = tx.portfolio_id}) = 1

\* a portfolio that held a transaction was just deleted, and the transaction
\* of the other portfolio is still there
C10_Witness ==
    /\ resp.op = "delete_portfolio" /\ resp.err = ""
    /\ next_tx_id = 3
    /\ Cardinality(transactions) = 1
    /\ Cardinality(portfolios) = 1

\* C29: delete_transaction removes the transaction with the given id, and
\* nothing else, when that transaction belongs to the given portfolio; when no
\* transaction has the id, or the one that has it belongs to another
\* portfolio, it fails with TransactionNotFoundError and the ledger is
\* unchanged.
C29_DeleteRemovesExactlyThatTransaction ==
    [][\A pid \in PortfolioIds, tid \in TxIds :
          delete_transaction(pid, tid) =>
              /\ portfolios' = portfolios
              /\ IF \E tx \in transactions : tx.id = tid /\ tx.portfolio_id = pid
                 THEN /\ resp'.err = ""
                      /\ transactions' = {tx \in transactions : tx.id # tid}
                 ELSE /\ resp'.err = "TransactionNotFoundError"
                      /\ transactions' = transactions]_vars

\* with two portfolios stored, one of the two transactions was deleted and
\* the other is still in the ledger
C29_Witness ==
    /\ resp.op = "delete_transaction"
    /\ resp.err = ""
    /\ next_tx_id = MaxTxIds + 1
    /\ Cardinality(transactions) = MaxTxIds - 1
    /\ \E tx \in transactions, p \in portfolios :
          tx.portfolio_id = p.id /\ Cardinality(portfolios) = 2

-----------------------------------------------------------------------------
(* Properties of the ingestion of the latest days *)

\* the last stored date of a ticker
LastStoredDate(t) == LatestBar(upper(t)).date

\* C27: POST /ingest/{ticker}/latest answers status
\* 'empty_db_use_range_ingest' when no price is stored for the ticker and
\* 'up_to_date' when the last stored date is today, both with ingested = 0
\* and without writing; otherwise it fetches from the day after the last
\* stored date through today and upserts those rows, and no others.
C27_IngestLatestFillsFromLastStored ==
    [][\A ticker \in {<<"A">>, <<"a">>, <<"B">>} :
          ingest_latest(ticker) =>
              /\ resp'.err = ""
              /\ IF BarsOf(upper(ticker)) = {}
                 THEN /\ resp'.result.status = "empty_db_use_range_ingest"
                      /\ resp'.result.ingested = 0
                      /\ prices' = prices
                 ELSE IF LastStoredDate(ticker) = today
                 THEN /\ resp'.result.status = "up_to_date"
                      /\ resp'.result.ingested = 0
                      /\ prices' = prices
                 ELSE /\ resp'.result.start = LastStoredDate(ticker) + 1
                      /\ resp'.result.end = today
                      /\ \A row \in prices' \ prices :
                            /\ row.ticker = upper(ticker)
                            /\ row.date > LastStoredDate(ticker)
                            /\ row.date <= today]_vars

-----------------------------------------------------------------------------
(* Properties of concurrent requests *)

\* what the function a finished request ran returns when it runs alone, from
\* call to return, on the ledger, the store and the provider as they are
Alone(request) ==
    IF request.fn = "compute_positions"
    THEN compute_positions(request.portfolio_id).positions
    ELSE compute_portfolio_metrics(request.portfolio_id, request.start, request.end,
                                   request.rf, request.mar)

\* C26: compute_positions and compute_portfolio_metrics only read: no step of
\* a request changes the ledger, the portfolios or the price store (prices
\* fetched from the provider are not stored), and nothing is kept from one
\* request to the next; however the steps of two concurrent requests for
\* positions and metrics interleave, each returns what it returns when it
\* runs alone.
C26_RequestsOnlyReadAndReturnAsAlone ==
    /\ [][resp'.op = "requests" =>
            /\ transactions' = transactions
            /\ portfolios' = portfolios
            /\ prices' = prices]_vars
    /\ [](\A slot \in DOMAIN Slots :
            Slots[slot].pc = "done" => Slots[slot].answer = Alone(Slots[slot]))

\* a request for metrics that fetched the history of B from the provider and
\* a request for positions that fetched the last close of B have both
\* finished, each started before the other ended
C26_Witness ==
    /\ resp.op = "requests"
    /\ \E s, t \in DOMAIN Slots :
          /\ Slots[s].pc = "done"
          /\ Slots[s].fn = "compute_portfolio_metrics"
          /\ Slots[s].answer.err = ""
          /\ \E i \in 1..Len(Slots[s].answer.io) : Slots[s].answer.io[i].fn = "get_history"
          /\ Slots[t].pc = "done"
          /\ Slots[t].fn = "compute_positions"
          /\ \E i \in 1..Len(Slots[t].answer) :
                /\ Slots[t].answer[i].ticker = <<"B">>
                /\ ~Slots[t].answer[i].market_price.nul
          /\ prices # {}

====
